------------------------------ MODULE ManagerBoot ------------------------------
(***************************************************************************)
(* The life of the user space manager (usr_manager.c, fh_host.c): it maps  *)
(* the escape page of the FVP into its own address space by editing its    *)
(* page table, learns where every guest page lies in the FVP's memory by   *)
(* scanning for tagged pages, saves what it learned, lets the waiting      *)
(* guest continue and serves it.  A manager that is started again restores *)
(* the saved state instead of scanning.                                    *)
(*                                                                         *)
(* The guest kernel's half of the handshake is outside the repository: it  *)
(* tags its free pages with their page frame number, offers the escape     *)
(* page, and waits for the host a limited number of rounds.                *)
(***************************************************************************)
EXTENDS Integers, FiniteSets, Functions

CONSTANTS
  Layout,         \* for each FVP process, in the order of their start: where
                  \* its tagged pages lie (page frame number -> address)
  EscapePages,    \* ESCAPE_PAGE_SIZE / PAGE_SIZE
  EntriesPerPage, \* PAGE_SIZE / sizeof(unsigned long)
  Faults,         \* mmap, page table edits and files may fail
  MaxStarts       \* bound: how often the manager is started

Fvps == DOMAIN Layout

(* The sum of an address map from lo to hi that holds the pages S of FVP f.*)
AddrSum(f, S, lo, hi) ==
  SumFunction([p \in lo..hi - 1 |-> IF p \in S THEN Layout[f][p] ELSE 0])

PageNumbers == UNION {DOMAIN Layout[f] : f \in Fvps}

(* Address 0 means "no mapping".  The checksum of the mappings is a sum of *)
(* their addresses; it is assumed to tell the pages of two FVP processes   *)
(* apart, and any pages from none.                                         *)
ASSUME BootAssumption ==
  /\ 1 \in Fvps
  /\ \A f \in Fvps : /\ Cardinality(DOMAIN Layout[f]) > 1
                     /\ \A p \in DOMAIN Layout[f] : p \in Nat /\ Layout[f][p] > 0
  /\ \A f \in Fvps : \A lo \in PageNumbers, hi \in PageNumbers :
       \A S \in SUBSET (DOMAIN Layout[f] \cap lo..hi - 1) : S # {} =>
         /\ AddrSum(f, S, lo, hi) # 0
         /\ \A g \in Fvps \ {f} : \A T \in SUBSET (DOMAIN Layout[g] \cap lo..hi - 1) :
              AddrSum(f, S, lo, hi) # AddrSum(g, T, lo, hi)
  /\ EscapePages \in Nat \ {0}
  /\ EntriesPerPage \in Nat \ {0}
  /\ Faults \in BOOLEAN
  /\ MaxStarts \in Nat

VARIABLES
  fvp,          \* pid of the FVP process
  guest,        \* booting, waiting for the host, running, or native: it went
                \* on without the host
  go,           \* action word of the offered page: "none", "wait" or "go"
  magic,        \* the escape page still carries its magic numbers
  settings,     \* SETTING_FILE
  mapping,      \* MAPPING_FILE
  mgr,          \* what main is doing, "none" without a process
  map,          \* ctx.addr_map with its bounds
  alias,        \* per region: its first pages alias the FVP's memory
  rec,          \* the region that ctx.escape_page_mmap_ctx knows
  traced,       \* the fault hook is enabled
  starts,       \* how often the manager has been started
  failed,       \* history: a fault occurred in the life of this FVP
  leaked        \* history: a manager ended with aliased page table entries

guestVars == <<fvp, guest, go, magic>>
fileVars  == <<settings, mapping>>
procVars  == <<mgr, map, alias, rec, traced>>
vars == <<guestVars, fileVars, procVars, starts, failed, leaked>>

Pages == DOMAIN Layout[fvp]

NoFile == [ok |-> FALSE]
NoFun  == [p \in {} |-> 0]
NoMap  == [min |-> 0, max |-> 0, vaddr |-> NoFun]

(* The two attempts of main to map the escape page use memory of their own.*)
Regions  == {"restore", "scan"}
NoAlias  == [r \in Regions |-> 0]
Mapping  == {"map_restore", "map_scan"}

MgrStates == {"none", "read_settings", "read_mappings", "find_escape", "tell_wait",
              "scan", "open_settings", "write_settings", "write_sum",
              "open_mappings", "write_mappings", "continue", "verify", "serve", "watch", "clean_up",
              "disable_trace"} \cup Mapping

Init ==
  /\ fvp = 1 /\ guest = "booting" /\ go = "none" /\ magic = FALSE
  /\ settings = NoFile /\ mapping = NoFile
  /\ mgr = "none" /\ map = NoMap /\ alias = NoAlias /\ rec = "none"
  /\ traced = FALSE /\ starts = 0 /\ failed = FALSE /\ leaked = FALSE

-----------------------------------------------------------------------------
(* The address map.                                                        *)

(* init_addr_map                                                           *)
InitAddrMap(min, max) ==
  [min |-> min, max |-> max, vaddr |-> [p \in min..max |-> 0]]

(* get_addr_map_vaddr_verify                                               *)
Vaddr(m, p) == IF p \in m.min..m.max THEN m.vaddr[p] ELSE 0

(* Faulty variant: the range check excludes pfn_min.                       *)
SetAddrsAboveMin(m, f) ==
  [m EXCEPT !.vaddr = [p \in m.min..m.max |-> IF p \in DOMAIN f /\ p > m.min
                                              THEN f[p] ELSE m.vaddr[p]]]

(* set_addr_map_vaddr for every entry of f: what is out of range is        *)
(* reported and dropped.                                                   *)
SetAddrs(m, f) ==
  [m EXCEPT !.vaddr = [p \in m.min..m.max |-> IF p \in DOMAIN f THEN f[p]
                                              ELSE m.vaddr[p]]]

(* checksum_vaddrs: the entry of pfn_max is not part of it.                *)
ChecksumVaddrs(m) == SumFunction([p \in m.min..m.max - 1 |-> m.vaddr[p]])

(* What save_settings writes to MAPPING_FILE.                              *)
Dumped(m) == {p \in m.min..(m.max - 1) : m.vaddr[p] # 0}

(* The array has max - min entries but is indexed up to max - min.  The    *)
(* last entry lies in the rest of the array's last page; if there is no    *)
(* rest it lies in other memory, which gives back the value, zero or       *)
(* something else (or ends the process: Signal).                           *)
PastEnd(m) == (m.max - m.min) % EntriesPerPage = 0

Stray == -1

Stored(m) ==
  IF PastEnd(m)
  THEN {[m EXCEPT !.vaddr[m.max] = v] : v \in {m.vaddr[m.max], 0, Stray}}
  ELSE {m}

-----------------------------------------------------------------------------
(* Building blocks.                                                        *)

Goto(from, to) == mgr = from /\ mgr' = to

Fault == Faults /\ failed' = TRUE

(* map_memory_from_file has failed: main clears ctx, the record of a       *)
(* mapped region included, and turns to scanning.                          *)
Abandon == mgr' = "find_escape" /\ map' = NoMap /\ rec' = "none"

(* goto clean_up                                                           *)
GiveUp(from) ==
  /\ Goto(from, "clean_up")
  /\ UNCHANGED <<guestVars, fileVars, map, alias, rec, traced, starts, leaked>>

(* fh_unmmap_region: restores the entries of the recorded region.          *)
Unmapped == IF rec = "none" THEN alias ELSE [alias EXCEPT ![rec] = 0]

(* The process ends and its memory is given back, aliased or not.          *)
Exit ==
  /\ mgr' = "none"
  /\ leaked' = (leaked \/ \E r \in Regions : Unmapped[r] > 0)
  /\ alias' = NoAlias
  /\ rec' = "none"
  /\ map' = NoMap
  /\ traced' = FALSE

-----------------------------------------------------------------------------
(* main up to map_memory_from_file.  Without the files of the FVP process  *)
(* it ends at once, as it does for a signal.                               *)
Start ==
  /\ Goto("none", "read_settings")
  /\ starts < MaxStarts
  /\ starts' = starts + 1
  /\ UNCHANGED <<guestVars, fileVars, map, alias, rec, traced, failed, leaked>>

(* read_settings and the comparison of pids                                *)
ReadSettings ==
  /\ mgr = "read_settings"
  /\ IF settings.ok /\ settings.pid = fvp
     THEN mgr' = "map_restore" /\ UNCHANGED <<map, rec>>
     ELSE Abandon
  /\ UNCHANGED <<guestVars, fileVars, alias, traced, starts, failed, leaked>>

(* Faulty variant: the loop does not stop at the last page.                *)
MapPageUnbounded(phase, r) ==
  /\ mgr = phase
  /\ alias[r] <= EscapePages
  /\ alias' = [alias EXCEPT ![r] = @ + 1]
  /\ UNCHANGED <<guestVars, fileVars, mgr, map, rec, traced, starts, failed, leaked>>

(* fh_mmap_region: fh_memory_map of the next page, and the record of all   *)
(* of them at the end.                                                     *)
MapPage(phase, r) ==
  /\ mgr = phase
  /\ alias[r] < EscapePages
  /\ alias' = [alias EXCEPT ![r] = @ + 1]
  /\ UNCHANGED <<guestVars, fileVars, mgr, map, rec, traced, starts, failed, leaked>>

MapDone(phase, r, next) ==
  /\ Goto(phase, next)
  /\ alias[r] = EscapePages
  /\ rec' = r
  /\ UNCHANGED <<guestVars, fileVars, map, alias, traced, starts, failed, leaked>>

(* map_memory_from_file without memory, or fh_mmap_region fails: its       *)
(* clean-up loop runs zero times.                                          *)
RestoreFails ==
  /\ Fault
  /\ \/ mgr = "map_restore" /\ alias["restore"] < EscapePages
     \/ mgr = "read_mappings"
  /\ Abandon
  /\ UNCHANGED <<guestVars, fileVars, alias, traced, starts, leaked>>

(* init_addr_map and read_mappings, with the checksum of the mappings      *)
Restored == SetAddrs(InitAddrMap(settings.min, settings.max), mapping.entries)

(* Faulty variant: the checksum of the mappings is not compared.           *)
ReadMappingsUnchecked ==
  /\ Goto("read_mappings", "verify")
  /\ mapping.ok
  /\ map' \in Stored(Restored)
  /\ UNCHANGED <<guestVars, fileVars, alias, rec, traced, starts, failed, leaked>>

ReadMappings ==
  /\ mgr = "read_mappings"
  /\ IF mapping.ok /\ ChecksumVaddrs(Restored) = settings.sum
     THEN mgr' = "verify" /\ map' \in Stored(Restored) /\ UNCHANGED rec
     ELSE Abandon
  /\ UNCHANGED <<guestVars, fileVars, alias, traced, starts, failed, leaked>>

-----------------------------------------------------------------------------
(* map_memory_fvp_boot                                                     *)

(* fvpmem_find_escape_page repeats its search until it finds the magic.    *)
FindEscapePage ==
  /\ Goto("find_escape", "map_scan")
  /\ magic
  /\ UNCHANGED <<guestVars, fileVars, map, alias, rec, traced, starts, failed,
                 leaked>>

BootMapFails == Fault /\ alias["scan"] < EscapePages /\ GiveUp("map_scan")

(* Faulty variant: the guest goes on before the scan and the save.         *)
TellGo ==
  /\ Goto("tell_wait", "scan")
  /\ go' = "go"
  /\ UNCHANGED <<fvp, guest, magic, fileVars, map, alias, rec, traced, starts,
                 failed, leaked>>

(* "Make fvp wait until further notice"                                    *)
TellWait ==
  /\ Goto("tell_wait", "scan")
  /\ go' = "wait"
  /\ UNCHANGED <<fvp, guest, magic, fileVars, map, alias, rec, traced, starts,
                 failed, leaked>>

(* The tags that a pass over the FVP's memory sees: a guest that runs has  *)
(* overwritten any of them.                                                *)
Visible == IF guest = "waiting" THEN {Pages} ELSE SUBSET Pages

(* fvpmem_find_dimensions, init_addr_map (which fails for an empty array)  *)
(* and fvpmem_scan_addresses                                               *)
Scan ==
  \E first \in Visible, second \in Visible : \E lo \in first, hi \in first :
    /\ first \subseteq lo..hi /\ lo < hi
    /\ second \subseteq first
    /\ Goto("scan", "open_settings")
    /\ map' \in Stored(SetAddrs(InitAddrMap(lo, hi), [p \in second |-> Layout[fvp][p]]))
    /\ UNCHANGED <<guestVars, fileVars, alias, rec, traced, starts, failed, leaked>>

ScanFails ==
  /\ \/ Fault
     \/ UNCHANGED failed /\ \E first \in Visible : Cardinality(first) < 2
  /\ GiveUp("scan")

-----------------------------------------------------------------------------
(* save_settings: SETTING_FILE is truncated and written, then MAPPING_FILE.*)
(* A crash leaves any prefix of the lines.  Settings that are cut off      *)
(* before their checksum are like none; the checksum of the mappings is    *)
(* the last line, and reads as 0 when it is missing.                       *)

OpenSettings ==
  /\ Goto("open_settings", "write_settings")
  /\ settings' = NoFile
  /\ UNCHANGED <<guestVars, mapping, map, alias, rec, traced, starts, failed, leaked>>

WriteSettings ==
  /\ Goto("write_settings", "write_sum")
  /\ settings' = [ok |-> TRUE, pid |-> fvp, min |-> map.min, max |-> map.max,
                  sum |-> 0]
  /\ UNCHANGED <<guestVars, mapping, map, alias, rec, traced, starts, failed, leaked>>

WriteSum ==
  /\ Goto("write_sum", "open_mappings")
  /\ settings' = [settings EXCEPT !.sum = ChecksumVaddrs(map)]
  /\ UNCHANGED <<guestVars, mapping, map, alias, rec, traced, starts, failed, leaked>>

OpenMappings ==
  /\ Goto("open_mappings", "write_mappings")
  /\ mapping' = [ok |-> TRUE, entries |-> NoFun]
  /\ UNCHANGED <<guestVars, settings, map, alias, rec, traced, starts, failed,
                 leaked>>

WriteMapping ==
  LET written == DOMAIN mapping.entries
      left == Dumped(map) \ written IN
  /\ mgr = "write_mappings"
  /\ \/ left = {} /\ mgr' = "continue" /\ UNCHANGED mapping
     \/ \E first \in left :
          /\ \A p \in left : first <= p
          /\ mapping' = [mapping EXCEPT !.entries =
                           [p \in written \cup {first} |-> map.vaddr[p]]]
          /\ UNCHANGED mgr
  /\ UNCHANGED <<guestVars, settings, map, alias, rec, traced, starts, failed,
                 leaked>>

(* A file that cannot be opened: main does not look at the result.         *)
SaveFails ==
  /\ Fault
  /\ Goto("open_settings", "continue") \/ Goto("open_mappings", "continue")
  /\ UNCHANGED <<guestVars, fileVars, map, alias, rec, traced, starts, leaked>>

-----------------------------------------------------------------------------
(* main after the address map                                              *)

ContinueGuest ==
  /\ Goto("continue", "verify")
  /\ go' = "go"
  /\ UNCHANGED <<fvp, guest, magic, fileVars, map, alias, rec, traced, starts,
                 failed, leaked>>

(* verify_mappings, run_thread and fh_enable_trace; without the faulthook  *)
(* device main only watches the page.                                      *)
Verify ==
  /\ \/ Goto("verify", "serve") /\ traced' = TRUE
     \/ Goto("verify", "watch") /\ UNCHANGED traced
  /\ UNCHANGED <<guestVars, fileVars, map, alias, rec, starts, failed, leaked>>

EnableTraceFails == Fault /\ GiveUp("verify")

(* The listener thread ends (FpgaComm): pthread_join returns.              *)
ListenerEnds == GiveUp("serve") /\ UNCHANGED failed

(* clean_up: unmap_fvp_memory, then fh_disable_trace and fh_clean_up       *)
UnmapFvpMemory ==
  /\ Goto("clean_up", "disable_trace")
  /\ alias' = Unmapped
  /\ rec' = "none"
  /\ map' = NoMap
  /\ UNCHANGED <<guestVars, fileVars, traced, starts, failed, leaked>>

DisableTrace ==
  /\ mgr = "disable_trace"
  /\ Exit
  /\ UNCHANGED <<guestVars, fileVars, starts, failed>>

(* _fh_crash_handler, wherever the signal (also a segmentation fault)      *)
(* meets main: fh_disable_trace, unmap_fvp_memory, fh_clean_up, exit.      *)
Signal ==
  /\ mgr # "none"
  /\ Exit
  /\ UNCHANGED <<guestVars, fileVars, starts, failed>>

-----------------------------------------------------------------------------
(* The guest kernel, the stub driver and the FVP.                          *)

GuestOffers ==
  /\ guest = "booting"
  /\ guest' = "waiting"
  /\ magic' = TRUE
  /\ UNCHANGED <<fvp, go, fileVars, procVars, starts, failed, leaked>>

GuestContinues ==
  /\ guest = "waiting"
  /\ go = "go"
  /\ guest' = "running"
  /\ UNCHANGED <<fvp, go, magic, fileVars, procVars, starts, failed, leaked>>

(* No host has made it wait, and the last round is over.                   *)
GuestGivesUp ==
  /\ guest = "waiting"
  /\ go = "none"
  /\ guest' = "native"
  /\ UNCHANGED <<fvp, go, magic, fileVars, procVars, starts, failed, leaked>>

(* faulthook_init of the stub driver clears the escape page.               *)
FaulthookInit ==
  /\ guest \in {"running", "native"}
  /\ magic
  /\ magic' = FALSE
  /\ UNCHANGED <<fvp, guest, go, fileVars, procVars, starts, failed, leaked>>

FvpRestart ==
  /\ mgr = "none"
  /\ fvp + 1 \in Fvps
  /\ fvp' = fvp + 1
  /\ guest' = "booting"
  /\ go' = "none"
  /\ magic' = FALSE
  /\ failed' = FALSE
  /\ UNCHANGED <<fileVars, procVars, starts, leaked>>

-----------------------------------------------------------------------------
MapMemoryFromFile ==
  \/ ReadSettings
  \/ MapPage("map_restore", "restore")
  \/ MapDone("map_restore", "restore", "read_mappings")
  \/ ReadMappings \/ RestoreFails

MapMemoryFvpBoot ==
  \/ FindEscapePage
  \/ MapPage("map_scan", "scan")
  \/ MapDone("map_scan", "scan", "tell_wait")
  \/ TellWait \/ Scan \/ ScanFails \/ BootMapFails

SaveSettings ==
  OpenSettings \/ WriteSettings \/ WriteSum \/ OpenMappings \/ WriteMapping \/ SaveFails

(* The steps that main takes by itself.                                    *)
Main ==
  \/ MapMemoryFromFile \/ MapMemoryFvpBoot \/ SaveSettings
  \/ ContinueGuest \/ Verify \/ EnableTraceFails \/ UnmapFvpMemory \/ DisableTrace

Environment ==
  \/ GuestOffers \/ GuestContinues \/ GuestGivesUp \/ FaulthookInit \/ FvpRestart

Next == Start \/ Main \/ ListenerEnds \/ Signal \/ Environment

Spec == Init /\ [][Next]_vars

(* main runs, and a guest that boots reaches the handshake.                *)
FairSpec == Spec /\ WF_vars(Main) /\ WF_vars(GuestOffers)

-----------------------------------------------------------------------------
TypeOK ==
  /\ fvp \in Fvps
  /\ guest \in {"booting", "waiting", "running", "native"}
  /\ go \in {"none", "wait", "go"}
  /\ settings.ok => settings.min <= settings.max
  /\ mgr \in MgrStates
  /\ DOMAIN map.vaddr = IF map = NoMap THEN {} ELSE map.min..map.max
  /\ alias \in [Regions -> 0..EscapePages]
  /\ rec \in Regions \cup {"none"}
  /\ magic \in BOOLEAN /\ traced \in BOOLEAN /\ failed \in BOOLEAN
  /\ leaked \in BOOLEAN
  /\ starts \in 0..MaxStarts

MapInUse == mgr \in {"verify", "serve", "watch"}

(* An address that the manager hands to the device is the address of that  *)
(* page in the FVP that runs now: no order of crashes between the writes   *)
(* of the two files and of restarts of FVP and manager makes it use        *)
(* addresses of another FVP.  Two entries of the last page are excepted:   *)
(* the one behind the end of the array, and, as the checksum leaves the    *)
(* last page out, the one that is the only entry of its map.               *)
MapFaithful ==
  MapInUse =>
    \A p \in map.min..map.max :
      \/ Vaddr(map, p) = 0
      \/ p \in Pages /\ Vaddr(map, p) = Layout[fvp][p]
      \/ p = map.max /\ PastEnd(map)
      \/ p = map.max /\ \A q \in map.min..map.max - 1 : Vaddr(map, q) = 0

(* A manager that serves a guest which left the handshake knows every      *)
(* page, whether it scanned or restored them.  The page with the highest   *)
(* number is excepted, see MapComplete.                                    *)
MapCompleteBelowMax ==
  MapInUse /\ guest = "running" /\ ~failed =>
    \A p \in Pages : (\E q \in Pages : p < q) => Vaddr(map, p) = Layout[fvp][p]

(* "We only dump mapping entry which resolve to a value" (save_settings):  *)
(* every entry that resolves to a value is there after a restart.          *)
MapComplete ==
  MapInUse /\ guest = "running" /\ ~failed =>
    \A p \in Pages : Vaddr(map, p) = Layout[fvp][p]

(* Once the guest runs the tags are gone and a scan is too late.  So       *)
(* whenever the manager may end, the files must restore its state ("We     *)
(* store settings such that we can restart manager without rebooting fvp").*)
(* Exempted are lives of an FVP in which a map, file or trace failed: the  *)
(* result of save_settings is ignored (usr_manager.c:892), so the guest    *)
(* goes on although there is nothing to restore.                           *)
Recoverable ==
  guest = "running" /\ ~failed =>
    /\ settings.ok
    /\ settings.pid = fvp
    /\ mapping.ok
    /\ ChecksumVaddrs(Restored) = settings.sum

(* "If something fails we have to make sure to clean up page table         *)
(* modifications" (fh_init).                                               *)
PageTableCleanedUp == ~leaked

(* A manager that is started gets as far as serving or watching, or ends;  *)
(* it does not search for ever (fvpmem_find_escape_page).                  *)
StartServes ==
  mgr = "read_settings" ~>
    (mgr \in {"serve", "watch", "none"} \/ guest = "native" \/ failed)
=============================================================================
