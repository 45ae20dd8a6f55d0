--------------------------------- MODULE MCDma ---------------------------------
(***************************************************************************)
(* Two processes of the guest that share pages and one of the host, pages  *)
(* of 4 bytes, descriptors of at most 5, a ring of 4 in blocks of 2.       *)
(***************************************************************************)
EXTENDS DmaPath

CONSTANTS g1, g2, h1

MCUserPage ==
  (g1 :> <<2, 3, 5, 4>>) @@ (g2 :> <<3, 3, 4, 6, Hole>>) @@ (h1 :> <<1, 2, 7, 7>>)

\* The manager has no mapping for guest page 6.
MCHostPage == (2 :> 3) @@ (3 :> 4) @@ (4 :> 6) @@ (5 :> 5)

Plain(buf, len, ep) ==
  [kind |-> "plain", write |-> TRUE, buf |-> buf, len |-> len, ep |-> ep, aperture |-> 1]
Windowed(buf, len, ep, aperture) ==
  [Plain(buf, len, ep) EXCEPT !.kind = "aperture", !.aperture = aperture]

NoCalls == [p \in Procs |-> {}]

Calm == [calls |-> NoCalls, write |-> TRUE, fixed |-> FALSE, merge |-> FALSE,
         retune |-> FALSE, sweep |-> FALSE, faults |-> {}]

\* Requests that succeed: whole, over two and over three pages.
Good(p) == CASE p = g1 -> {Plain(0, 12, 0), Plain(1, 6, 3)}
             [] p = g2 -> {Plain(6, 5, 0)}
             [] p = h1 -> {Plain(2, 7, 0)}

\* Requests that do not: nothing, too many pages, pages missing, twice or
\* unknown to the manager, misaligned, or of an ioctl that loses its length.
Bad(p) == CASE p = g1 -> {Plain(4, 0, 0), Plain(3, 12, 1), Plain(1, 2, 0), Windowed(1, 4, 1, 4)}
            [] p = g2 -> {Plain(2, 4, 2), Plain(14, 6, 0), Plain(12, 3, 0), Plain(16, 2, 0)}
            [] p = h1 -> {Plain(0, 0, 0), Plain(9, 6, 1), Plain(1, 2, 0)}

MCSituations ==
  {[Calm EXCEPT !.calls = [@ EXCEPT ![g1] = Good(g1), ![h1] = Good(h1)], !.merge = m] :
     m \in BOOLEAN}
  \cup {[Calm EXCEPT !.calls = [p \in GuestProcs |-> Good(p) \cup Bad(p)] @@ NoCalls]}
  \cup {[Calm EXCEPT !.calls = [@ EXCEPT ![h1] = Good(h1) \cup Bad(h1)
                                   \cup {Windowed(2, 8, 0, 4), Windowed(2, 6, 2, 2), Windowed(3, 5, 1, 3)}],
                     !.merge = m] : m \in BOOLEAN}
  \cup {[Calm EXCEPT !.calls = [@ EXCEPT ![g1] = Good(g1), ![h1] = Good(h1)], !.fixed = TRUE],
        [Calm EXCEPT !.calls = [@ EXCEPT ![g1] = Good(g1)], !.write = FALSE],
        [Calm EXCEPT !.calls = [@ EXCEPT ![h1] = Good(h1)], !.retune = TRUE],
        [Calm EXCEPT !.calls = [@ EXCEPT ![g1] = Good(g1)], !.merge = TRUE,
                     !.faults = {"memory", "delegation", "escape", "fvp", "engine"}],
        [Calm EXCEPT !.calls = [p \in GuestProcs |-> Good(p)] @@ NoCalls, !.sweep = TRUE],
        [Calm EXCEPT !.calls = [@ EXCEPT ![g1] = Good(g1)], !.sweep = TRUE,
                     !.faults = {"delegation"}]}

\* The mask finds the offset into a window whose size is a power of two.
ASSUME MaskIsOffset == \A k \in 0..4, n \in 0..40 : Masked(n, 2^k) = {n % (2^k)}
=============================================================================
