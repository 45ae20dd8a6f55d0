--------------------------- MODULE ManagerBootProofs ---------------------------
(***************************************************************************)
(* Machine-checked properties of the manager's life (usr_manager.c): which *)
(* addresses it uses and what it can restore, for all layouts of the FVP   *)
(* processes, all crashes and all restarts.                                *)
(***************************************************************************)
EXTENDS ManagerBoot, TLAPS

SaveStates == {"open_settings", "write_settings", "write_sum", "open_mappings",
               "write_mappings", "continue"}
ScanStates == {"find_escape", "map_scan", "tell_wait", "scan"}

-----------------------------------------------------------------------------
(* The address map.                                                        *)

Shape(m) ==
  /\ m.min \in Pages /\ m.max \in Pages /\ m.min < m.max
  /\ DOMAIN m.vaddr = m.min..m.max

Faithful(m) ==
  \A p \in m.min..m.max :
    \/ m.vaddr[p] = 0
    \/ p \in Pages /\ m.vaddr[p] = Layout[fvp][p]
    \/ p = m.max /\ PastEnd(m)

FaithfulOrLast(m) ==
  \/ Faithful(m)
  \/ \A p \in m.min..m.max - 1 : m.vaddr[p] = 0

(* Every page but the last is known.                                       *)
CompleteBelow(m) ==
  \A p \in Pages : /\ m.min <= p /\ p <= m.max
                   /\ p < m.max => m.vaddr[p] = Layout[fvp][p]

MapInv ==
  /\ mgr \in SaveStates => Shape(map) /\ Faithful(map)
  /\ MapInUse => Shape(map) /\ FaithfulOrLast(map)
  /\ mgr = "clean_up" => map = NoMap \/ Shape(map)
  /\ mgr \notin SaveStates \cup {"verify", "serve", "watch", "clean_up"} => map = NoMap

-----------------------------------------------------------------------------
(* The files.                                                              *)

(* Settings name an FVP, a range of its pages, and the sum of some of its  *)
(* pages or none; the mappings are those of one FVP.                       *)
SettingsInv ==
  \/ settings = NoFile
  \/ /\ settings = [ok |-> TRUE, pid |-> settings.pid, min |-> settings.min,
                    max |-> settings.max, sum |-> settings.sum]
     /\ settings.pid \in Fvps
     /\ settings.min \in DOMAIN Layout[settings.pid]
     /\ settings.max \in DOMAIN Layout[settings.pid]
     /\ settings.min < settings.max
     /\ \/ settings.sum = 0
        \/ \E S \in SUBSET (DOMAIN Layout[settings.pid] \cap settings.min..settings.max - 1) :
             settings.sum = AddrSum(settings.pid, S, settings.min, settings.max)

MappingInv ==
  \/ mapping = NoFile
  \/ /\ mapping = [ok |-> TRUE, entries |-> mapping.entries]
     /\ \E g \in Fvps : \A p \in DOMAIN mapping.entries :
          p \in DOMAIN Layout[g] /\ mapping.entries[p] = Layout[g][p]

(* The files describe the map, the mappings as far as they are written.    *)
Describes(m) ==
  settings.ok /\ settings.pid = fvp /\ settings.min = m.min /\ settings.max = m.max

Summed(m) == Describes(m) /\ settings.sum = ChecksumVaddrs(m)

Written(m) ==
  /\ Summed(m) /\ mapping.ok /\ DOMAIN mapping.entries \subseteq Dumped(m)
  /\ \A p \in DOMAIN mapping.entries : mapping.entries[p] = m.vaddr[p]

FilesInv ==
  /\ SettingsInv /\ MappingInv
  /\ mgr \in {"map_restore", "read_mappings"} => settings.ok /\ settings.pid = fvp
  /\ mgr = "write_sum" => Describes(map)
  /\ mgr = "open_mappings" => Summed(map)
  /\ mgr = "write_mappings" => Written(map)
  /\ mgr = "continue" /\ ~failed =>
       Written(map) /\ Dumped(map) \subseteq DOMAIN mapping.entries

-----------------------------------------------------------------------------
(* The handshake with the guest.                                           *)

Saved ==
  /\ settings.ok /\ settings.pid = fvp /\ mapping.ok
  /\ CompleteBelow(Restored) /\ ChecksumVaddrs(Restored) = settings.sum

(* A guest that the manager has let go on finds everything saved, and no   *)
(* manager scans again.                                                    *)
HostInv ==
  guest # "native" /\ ~failed =>
    /\ guest = "running" => go = "go"
    /\ mgr \in SaveStates => CompleteBelow(map)
    /\ go = "go" => /\ mgr \notin ScanStates \cup SaveStates
                    /\ Saved
                    /\ MapInUse => CompleteBelow(map)

GuestInv ==
  /\ guest = "booting" => go = "none" /\ ~magic
  /\ mgr \in {"map_scan", "tell_wait", "scan"} \cup SaveStates => guest # "booting"
  /\ mgr \in {"scan"} \cup SaveStates => go # "none"

HandshakeInv == GuestInv /\ HostInv

BaseOK ==
  /\ fvp \in Fvps
  /\ guest \in {"booting", "waiting", "running", "native"}
  /\ go \in {"none", "wait", "go"}
  /\ mgr \in MgrStates
  /\ alias \in [Regions -> 0..EscapePages]
  /\ rec \in Regions \cup {"none"}
  /\ magic \in BOOLEAN /\ traced \in BOOLEAN /\ failed \in BOOLEAN
  /\ leaked \in BOOLEAN
  /\ starts \in 0..MaxStarts

BootInv == BaseOK /\ MapInv /\ FilesInv /\ HandshakeInv
-----------------------------------------------------------------------------
(* Facts about the layouts and the operators on address maps.              *)

LEMMA PageFacts ==
  ASSUME NEW f \in Fvps, NEW p \in DOMAIN Layout[f]
  PROVE  p \in Nat /\ Layout[f][p] > 0 /\ p \in PageNumbers
BY BootAssumption DEF PageNumbers

LEMMA NoFileFacts == NoFile.ok = FALSE
BY DEF NoFile

LEMMA SetAddrsFacts ==
  ASSUME NEW lo \in Int, NEW hi \in Int, NEW f
  PROVE  SetAddrs(InitAddrMap(lo, hi), f) =
           [min |-> lo, max |-> hi,
            vaddr |-> [p \in lo..hi |-> IF p \in DOMAIN f THEN f[p] ELSE 0]]
BY DEF SetAddrs, InitAddrMap

(* Only the entry behind the end of the array may change.                  *)
LEMMA StoredFacts ==
  ASSUME NEW lo \in Int, NEW hi \in Int, lo <= hi, NEW v, DOMAIN v = lo..hi,
         NEW m \in Stored([min |-> lo, max |-> hi, vaddr |-> v])
  PROVE  /\ m.min = lo /\ m.max = hi /\ DOMAIN m.vaddr = lo..hi
         /\ \A p \in lo..hi - 1 : m.vaddr[p] = v[p]
         /\ m.vaddr[hi] = v[hi] \/ PastEnd(m)
<1> DEFINE n == [min |-> lo, max |-> hi, vaddr |-> v]
<1>1. CASE PastEnd(n)
  <2>1. PICK x : m = [n EXCEPT !.vaddr[hi] = x]
    BY <1>1 DEF Stored
  <2>2. m = [min |-> lo, max |-> hi, vaddr |-> [v EXCEPT ![hi] = x]]
    BY <2>1
  <2>3. PastEnd(m)
    BY <1>1, <2>2 DEF PastEnd
  <2> QED BY <2>2, <2>3
<1>2. CASE ~PastEnd(n)
  <2>1. m = n
    BY <1>2 DEF Stored
  <2> QED BY <2>1
<1> QED BY <1>1, <1>2

(* The checksum depends on the entries below the last one only.            *)
LEMMA SameChecksum ==
  ASSUME NEW m, NEW n, m.min = n.min, m.max = n.max,
         \A p \in m.min..m.max - 1 : m.vaddr[p] = n.vaddr[p]
  PROVE  ChecksumVaddrs(m) = ChecksumVaddrs(n)
<1>1. [p \in m.min..m.max - 1 |-> m.vaddr[p]] = [p \in n.min..n.max - 1 |-> n.vaddr[p]]
  OBVIOUS
<1> QED BY <1>1 DEF ChecksumVaddrs

LEMMA ChecksumOfPages ==
  ASSUME NEW m, NEW f, NEW S,
         \A p \in m.min..m.max - 1 : m.vaddr[p] = IF p \in S THEN Layout[f][p] ELSE 0
  PROVE  ChecksumVaddrs(m) = AddrSum(f, S, m.min, m.max)
<1>1. [p \in m.min..m.max - 1 |-> m.vaddr[p]]
        = [p \in m.min..m.max - 1 |-> IF p \in S THEN Layout[f][p] ELSE 0]
  OBVIOUS
<1> QED BY <1>1 DEF ChecksumVaddrs, AddrSum

LEMMA RestoredFacts ==
  ASSUME settings.min \in Int, settings.max \in Int
  PROVE  Restored = [min |-> settings.min, max |-> settings.max,
                     vaddr |-> [p \in settings.min..settings.max |->
                                  IF p \in DOMAIN mapping.entries
                                  THEN mapping.entries[p] ELSE 0]]
BY SetAddrsFacts DEF Restored

-----------------------------------------------------------------------------
LEMMA BootStart == Init => BootInv
<1> SUFFICES ASSUME Init PROVE BootInv
  OBVIOUS
<1> USE BootAssumption
<1>1. BaseOK
  <2>1. magic \in BOOLEAN /\ traced \in BOOLEAN /\ failed \in BOOLEAN /\ leaked \in BOOLEAN
    BY DEF Init
  <2>2. alias \in [Regions -> 0..EscapePages] /\ starts \in 0..MaxStarts /\ fvp \in Fvps
    BY DEF Init, NoAlias
  <2>3. /\ guest \in {"booting", "waiting", "running", "native"}
        /\ go \in {"none", "wait", "go"}
        /\ mgr \in MgrStates /\ rec \in Regions \cup {"none"}
    BY DEF Init, MgrStates
  <2> QED BY <2>1, <2>2, <2>3 DEF BaseOK
<1>2. MapInv
  BY DEF Init, MapInv, MapInUse, SaveStates
<1>3. FilesInv
  BY DEF Init, FilesInv, SettingsInv, MappingInv
<1>4. HandshakeInv
  BY DEF Init, HandshakeInv, GuestInv, HostInv, SaveStates, ScanStates
<1> QED BY <1>1, <1>2, <1>3, <1>4 DEF BootInv
-----------------------------------------------------------------------------
(* Types.                                                                  *)

LEMMA BaseStep == BaseOK /\ [Next]_vars => BaseOK'
<1> SUFFICES ASSUME BaseOK, [Next]_vars PROVE BaseOK'
  OBVIOUS
<1> USE BootAssumption DEF BaseOK, MgrStates, Mapping, Goto, GiveUp, Fault,
        guestVars, fileVars, procVars, vars
<1>0. Unmapped \in [Regions -> 0..EscapePages] /\ NoAlias \in [Regions -> 0..EscapePages]
  BY DEF Unmapped, NoAlias
<1>1. CASE Start
  BY <1>1 DEF Start
<1>2. CASE ReadSettings \/ RestoreFails
  BY <1>2 DEF ReadSettings, RestoreFails, Abandon
<1>3. ASSUME NEW ph \in Mapping, NEW r \in Regions, MapPage(ph, r) PROVE BaseOK'
  BY <1>3 DEF MapPage
<1>4. ASSUME NEW ph \in Mapping, NEW r \in Regions, NEW next \in {"read_mappings", "tell_wait"},
             MapDone(ph, r, next)
      PROVE  BaseOK'
  BY <1>4 DEF MapDone
<1>5. CASE ReadMappings
  BY <1>5 DEF ReadMappings, Abandon
<1>6. CASE FindEscapePage \/ TellWait \/ BootMapFails
  BY <1>6 DEF FindEscapePage, TellWait, BootMapFails
<1>7. CASE Scan
  BY <1>7 DEF Scan
<1>8. CASE ScanFails
  BY <1>8 DEF ScanFails
<1>9. CASE OpenSettings \/ WriteSettings \/ WriteSum \/ OpenMappings
  BY <1>9 DEF OpenSettings, WriteSettings, WriteSum, OpenMappings
<1>10. CASE WriteMapping
  BY <1>10 DEF WriteMapping
<1>11. CASE SaveFails \/ ContinueGuest
  BY <1>11 DEF SaveFails, ContinueGuest
<1>12. CASE Verify \/ EnableTraceFails \/ ListenerEnds
  BY <1>12 DEF Verify, EnableTraceFails, ListenerEnds
<1>13. CASE UnmapFvpMemory
  BY <1>0, <1>13 DEF UnmapFvpMemory
<1>14. CASE DisableTrace \/ Signal
  <2>1. leaked' \in BOOLEAN
    BY <1>14 DEF DisableTrace, Signal, Exit
  <2> QED BY <1>0, <1>14, <2>1 DEF DisableTrace, Signal, Exit
<1>15. CASE GuestOffers \/ GuestContinues \/ GuestGivesUp \/ FaulthookInit
  <2>1. CASE GuestOffers
    BY <2>1 DEF GuestOffers
  <2>2. CASE GuestContinues
    BY <2>2 DEF GuestContinues
  <2>3. CASE GuestGivesUp
    BY <2>3 DEF GuestGivesUp
  <2>4. CASE FaulthookInit
    BY <2>4 DEF FaulthookInit
  <2> QED BY <1>15, <2>1, <2>2, <2>3, <2>4
<1>16. CASE FvpRestart
  BY <1>16 DEF FvpRestart
<1>17. CASE UNCHANGED vars
  BY <1>17
<1> QED
  BY <1>1, <1>2, <1>3, <1>4, <1>5, <1>6, <1>7, <1>8, <1>9, <1>10, <1>11, <1>12, <1>13,
     <1>14, <1>15, <1>16, <1>17
  DEF Next, Main, Environment, MapMemoryFromFile, MapMemoryFvpBoot, SaveSettings, Regions
-----------------------------------------------------------------------------
(* The map in use.                                                         *)

UseStates == {"verify", "serve", "watch"}

LEMMA MapKept ==
  ASSUME MapInv, UNCHANGED <<map, fvp>>,
         mgr' \in SaveStates => mgr \in SaveStates,
         mgr' \in UseStates => mgr \in SaveStates \cup UseStates,
         mgr \in SaveStates \cup UseStates \cup {"clean_up"} =>
           mgr' \in SaveStates \cup UseStates \cup {"clean_up"}
  PROVE  MapInv'
<1>1. /\ Shape(map)' <=> Shape(map)
      /\ Faithful(map)' <=> Faithful(map)
      /\ FaithfulOrLast(map)' <=> FaithfulOrLast(map)
  BY DEF Shape, Faithful, FaithfulOrLast, Pages, PastEnd
<1>2. Faithful(map) => FaithfulOrLast(map)
  BY DEF FaithfulOrLast
<1>3. mgr \in SaveStates \cup UseStates \cup {"clean_up"} => map = NoMap \/ Shape(map)
  BY DEF MapInv, MapInUse, UseStates
<1>4. mgr \notin SaveStates \cup UseStates \cup {"clean_up"} => map = NoMap
  BY DEF MapInv, UseStates
<1>5. mgr \in SaveStates \cup UseStates => Shape(map) /\ FaithfulOrLast(map)
  BY <1>2 DEF MapInv, MapInUse, UseStates
<1>6. mgr \in SaveStates => Shape(map) /\ Faithful(map)
  BY DEF MapInv
<1>7. (mgr \in SaveStates => Shape(map) /\ Faithful(map))'
  BY <1>1, <1>6
<1>8. (MapInUse => Shape(map) /\ FaithfulOrLast(map))'
  BY <1>1, <1>5 DEF MapInUse, UseStates
<1>9. (mgr = "clean_up" => map = NoMap \/ Shape(map))'
  BY <1>1, <1>3, <1>4
<1>10. (mgr \notin SaveStates \cup {"verify", "serve", "watch", "clean_up"} => map = NoMap)'
  BY <1>4 DEF UseStates
<1> QED BY <1>7, <1>8, <1>9, <1>10 DEF MapInv

LEMMA MapGone ==
  ASSUME map' = NoMap, mgr' \notin SaveStates \cup UseStates PROVE MapInv'
BY DEF MapInv, MapInUse, UseStates

(* The pass over the memory of the FVP.                                    *)
LEMMA ScanMap ==
  ASSUME BaseOK, Scan
  PROVE  /\ MapInv'
         /\ guest = "waiting" => CompleteBelow(map)'
<1>1. PICK first \in Visible, second \in Visible :
        \E lo \in first, hi \in first :
          /\ first \subseteq lo..hi /\ lo < hi
          /\ second \subseteq first
          /\ map' \in Stored(SetAddrs(InitAddrMap(lo, hi), [p \in second |-> Layout[fvp][p]]))
  BY DEF Scan
<1>2. PICK lo \in first, hi \in first :
        /\ first \subseteq lo..hi /\ lo < hi
        /\ second \subseteq first
        /\ map' \in Stored(SetAddrs(InitAddrMap(lo, hi), [p \in second |-> Layout[fvp][p]]))
  BY <1>1
<1>3. mgr' = "open_settings" /\ fvp' = fvp /\ guest' = guest /\ fvp \in Fvps
  BY DEF Scan, Goto, guestVars, BaseOK
<1>4. first \subseteq Pages /\ second \subseteq Pages
  BY DEF Visible
<1>5. lo \in Nat /\ hi \in Nat /\ lo \in Pages /\ hi \in Pages
  BY <1>3, <1>4, PageFacts DEF Pages
<1> DEFINE v == [p \in lo..hi |-> IF p \in second THEN Layout[fvp][p] ELSE 0]
<1>6. map' \in Stored([min |-> lo, max |-> hi, vaddr |-> v])
  BY <1>2, <1>5, SetAddrsFacts
<1>7. DOMAIN v = lo..hi
  OBVIOUS
<1>8. \A p \in lo..hi : v[p] = IF p \in second THEN Layout[fvp][p] ELSE 0
  OBVIOUS
<1> HIDE DEF v
<1>9. /\ map'.min = lo /\ map'.max = hi /\ DOMAIN map'.vaddr = lo..hi
      /\ \A p \in lo..hi - 1 : map'.vaddr[p] = v[p]
      /\ map'.vaddr[hi] = v[hi] \/ PastEnd(map')
  BY <1>2, <1>5, <1>6, <1>7, StoredFacts
<1>10. \A p \in lo..hi : p = hi \/ p \in lo..hi - 1
  BY <1>5
<1>11. Pages' = Pages /\ Layout[fvp'] = Layout[fvp]
  BY <1>3 DEF Pages
<1>12. Shape(map)'
  BY <1>2, <1>5, <1>9, <1>11 DEF Shape
<1>13. Faithful(map)'
  <2>1. \A p \in lo..hi : v[p] = 0 \/ (p \in Pages /\ v[p] = Layout[fvp][p])
    BY <1>4, <1>8
  <2> QED BY <1>9, <1>10, <1>11, <2>1 DEF Faithful, PastEnd
<1>14. MapInv'
  BY <1>3, <1>12, <1>13 DEF MapInv, SaveStates, MapInUse
<1>15. ASSUME guest = "waiting" PROVE CompleteBelow(map)'
  <2>1. first = Pages /\ second = Pages
    BY <1>15 DEF Visible
  <2>2. ASSUME NEW p \in Pages
        PROVE  lo <= p /\ p <= hi /\ (p < hi => map'.vaddr[p] = Layout[fvp][p])
    <3>1. p \in lo..hi /\ p \in Nat
      BY <1>2, <1>3, <2>1, PageFacts DEF Pages
    <3> QED BY <1>5, <1>8, <1>9, <2>1, <3>1
  <2> QED BY <1>9, <1>11, <2>2 DEF CompleteBelow
<1> QED BY <1>14, <1>15

(* read_mappings: mappings of another FVP have another sum unless none of  *)
(* them lies below the last page.                                          *)
LEMMA RestoreMap ==
  ASSUME BaseOK, FilesInv, mgr = "read_mappings", mapping.ok,
         ChecksumVaddrs(Restored) = settings.sum,
         NEW m \in Stored(Restored)
  PROVE  /\ Shape(m) /\ FaithfulOrLast(m)
         /\ CompleteBelow(Restored) => CompleteBelow(m)
<1> DEFINE lo == settings.min
           hi == settings.max
           e == mapping.entries
           v == [p \in lo..hi |-> IF p \in DOMAIN e THEN e[p] ELSE 0]
<1>1. /\ settings.ok /\ settings.pid = fvp /\ fvp \in Fvps
      /\ settings # NoFile /\ mapping # NoFile
  BY NoFileFacts DEF FilesInv, BaseOK
<1>2. /\ lo \in DOMAIN Layout[fvp] /\ hi \in DOMAIN Layout[fvp] /\ lo < hi
      /\ \/ settings.sum = 0
         \/ \E S \in SUBSET (DOMAIN Layout[fvp] \cap lo..hi - 1) :
              settings.sum = AddrSum(fvp, S, lo, hi)
  BY <1>1 DEF FilesInv, SettingsInv
<1>3. lo \in Nat /\ hi \in Nat /\ lo \in Pages /\ hi \in Pages
      /\ lo \in PageNumbers /\ hi \in PageNumbers
  BY <1>1, <1>2, PageFacts DEF Pages
<1>4. PICK g \in Fvps : \A p \in DOMAIN e : p \in DOMAIN Layout[g] /\ e[p] = Layout[g][p]
  BY <1>1 DEF FilesInv, MappingInv
<1>5. Restored = [min |-> lo, max |-> hi, vaddr |-> v]
  BY <1>3, RestoredFacts
<1>6. /\ DOMAIN v = lo..hi
      /\ \A p \in lo..hi : v[p] = IF p \in DOMAIN e THEN e[p] ELSE 0
  OBVIOUS
<1>7. Restored.min = lo /\ Restored.max = hi /\ Restored.vaddr = v
  BY <1>5
<1> HIDE DEF v, lo, hi, e
<1>8. /\ m.min = lo /\ m.max = hi /\ DOMAIN m.vaddr = lo..hi
      /\ \A p \in lo..hi - 1 : m.vaddr[p] = v[p]
      /\ m.vaddr[hi] = v[hi] \/ PastEnd(m)
  BY <1>2, <1>3, <1>5, <1>6, StoredFacts
<1>9. Shape(m)
  BY <1>2, <1>3, <1>8 DEF Shape
<1>10. FaithfulOrLast(m)
  <2>1. CASE g = fvp
    <3>1. \A p \in lo..hi : v[p] = 0 \/ (p \in Pages /\ v[p] = Layout[fvp][p])
      BY <1>4, <1>6, <2>1 DEF Pages
    <3>2. \A p \in lo..hi : p = hi \/ p \in lo..hi - 1
      BY <1>3
    <3> QED BY <1>8, <3>1, <3>2 DEF Faithful, FaithfulOrLast
  <2>2. CASE g # fvp
    <3> DEFINE T == DOMAIN e \cap lo..hi - 1
    <3>1. T \in SUBSET (DOMAIN Layout[g] \cap lo..hi - 1)
      BY <1>4
    <3>2. \A p \in lo..hi - 1 : v[p] = IF p \in T THEN Layout[g][p] ELSE 0
      BY <1>3, <1>4, <1>6
    <3>3. ChecksumVaddrs(Restored) = AddrSum(g, T, lo, hi)
      BY <1>7, <3>2, ChecksumOfPages
    <3> HIDE DEF T
    <3>4. T = {}
      BY <1>1, <1>2, <1>3, <1>4, <2>2, <3>1, <3>3, BootAssumption
    <3> QED BY <1>8, <3>2, <3>4 DEF FaithfulOrLast
  <2> QED BY <2>1, <2>2
<1>11. CompleteBelow(Restored) => CompleteBelow(m)
  <2>1. \A p \in Pages : p \in Nat
    BY <1>1, PageFacts DEF Pages
  <2>2. ASSUME CompleteBelow(Restored), NEW p \in Pages
        PROVE  lo <= p /\ p <= hi /\ (p < hi => m.vaddr[p] = Layout[fvp][p])
    <3>1. lo <= p /\ p <= hi /\ (p < hi => v[p] = Layout[fvp][p])
      BY <1>7, <2>2 DEF CompleteBelow
    <3> QED BY <1>3, <1>8, <2>1, <3>1
  <2> QED BY <1>8, <2>2 DEF CompleteBelow
<1> QED BY <1>9, <1>10, <1>11
LEMMA MapStep == BootInv /\ [Next]_vars => MapInv'
<1> SUFFICES ASSUME BootInv, [Next]_vars PROVE MapInv'
  OBVIOUS
<1>0. BaseOK /\ MapInv /\ FilesInv
  BY DEF BootInv
<1> USE DEF Goto, GiveUp, Fault, guestVars, fileVars, procVars, vars, SaveStates, UseStates
<1>1. CASE Start
  BY <1>0, <1>1, MapKept DEF Start
<1>2. CASE ReadSettings
  <2>1. CASE mgr' = "map_restore" /\ UNCHANGED map
    BY <1>0, <1>2, <2>1, MapKept DEF ReadSettings
  <2>2. CASE Abandon
    BY <2>2, MapGone DEF Abandon
  <2> QED BY <1>2, <2>1, <2>2 DEF ReadSettings
<1>3. CASE RestoreFails
  BY <1>3, MapGone DEF RestoreFails, Abandon
<1>4. ASSUME NEW ph \in Mapping, NEW r \in Regions, MapPage(ph, r) PROVE MapInv'
  BY <1>0, <1>4, MapKept DEF MapPage
<1>5. ASSUME NEW ph \in Mapping, NEW r \in Regions, NEW next \in {"read_mappings", "tell_wait"},
             MapDone(ph, r, next)
      PROVE  MapInv'
  BY <1>0, <1>5, MapKept DEF MapDone, Mapping
<1>6. CASE ReadMappings
  <2>1. CASE Abandon
    BY <2>1, MapGone DEF Abandon
  <2>2. CASE ~Abandon
    <3>1. /\ mgr = "read_mappings" /\ mapping.ok /\ ChecksumVaddrs(Restored) = settings.sum
          /\ mgr' = "verify" /\ map' \in Stored(Restored) /\ fvp' = fvp
      BY <1>6, <2>2 DEF ReadMappings
    <3>2. Shape(map') /\ FaithfulOrLast(map')
      BY <1>0, <3>1, RestoreMap
    <3>3. Shape(map)' /\ FaithfulOrLast(map)'
      BY <3>1, <3>2 DEF Shape, FaithfulOrLast, Faithful, Pages, PastEnd
    <3> QED BY <3>1, <3>3 DEF MapInv, MapInUse
  <2> QED BY <2>1, <2>2
<1>7. CASE FindEscapePage \/ TellWait \/ BootMapFails
  BY <1>0, <1>7, MapKept DEF FindEscapePage, TellWait, BootMapFails
<1>8. CASE Scan
  BY <1>0, <1>8, ScanMap
<1>9. CASE ScanFails
  BY <1>0, <1>9, MapKept DEF ScanFails
<1>10. CASE OpenSettings \/ WriteSettings \/ WriteSum \/ OpenMappings
  BY <1>0, <1>10, MapKept DEF OpenSettings, WriteSettings, WriteSum, OpenMappings
<1>11. CASE WriteMapping
  <2>1. mgr = "write_mappings" /\ mgr' \in {"continue", mgr} /\ UNCHANGED <<map, fvp>>
    BY <1>11 DEF WriteMapping
  <2> QED BY <1>0, <2>1, MapKept
<1>12. CASE SaveFails \/ ContinueGuest
  BY <1>0, <1>12, MapKept DEF SaveFails, ContinueGuest
<1>13. CASE Verify \/ EnableTraceFails \/ ListenerEnds
  BY <1>0, <1>13, MapKept DEF Verify, EnableTraceFails, ListenerEnds
<1>14. CASE UnmapFvpMemory \/ DisableTrace \/ Signal
  BY <1>14, MapGone DEF UnmapFvpMemory, DisableTrace, Signal, Exit
<1>15. CASE GuestOffers \/ GuestContinues \/ GuestGivesUp \/ FaulthookInit
  BY <1>0, <1>15, MapKept DEF GuestOffers, GuestContinues, GuestGivesUp, FaulthookInit
<1>16. CASE FvpRestart
  BY <1>0, <1>16, MapGone DEF FvpRestart, MapInv
<1>17. CASE UNCHANGED vars
  BY <1>0, <1>17, MapKept
<1> QED
  BY <1>1, <1>2, <1>3, <1>4, <1>5, <1>6, <1>7, <1>8, <1>9, <1>10, <1>11, <1>12, <1>13,
     <1>14, <1>15, <1>16, <1>17
  DEF Next, Main, Environment, MapMemoryFromFile, MapMemoryFvpBoot, SaveSettings, Regions, Mapping
-----------------------------------------------------------------------------
(* The files.                                                              *)

LEMMA FilesKept ==
  ASSUME FilesInv, UNCHANGED <<settings, mapping>>,
         mgr' \in {"map_restore", "read_mappings"} =>
           settings.ok /\ settings.pid = fvp /\ fvp' = fvp,
         mgr' \in {"write_sum", "open_mappings", "write_mappings"} =>
           mgr' = mgr /\ UNCHANGED <<map, fvp>>,
         mgr' = "continue" /\ ~failed' =>
           mgr = "continue" /\ ~failed /\ UNCHANGED <<map, fvp>>
  PROVE  FilesInv'
<1>1. SettingsInv' /\ MappingInv'
  BY DEF FilesInv, SettingsInv, MappingInv
<1>2. ASSUME UNCHANGED <<map, fvp>>
      PROVE  /\ Describes(map) => Describes(map)'
             /\ Summed(map) => Summed(map)'
             /\ Written(map) => Written(map)'
             /\ Dumped(map)' = Dumped(map)
  <2>1. Dumped(map)' = Dumped(map) /\ ChecksumVaddrs(map)' = ChecksumVaddrs(map)
    BY <1>2 DEF Dumped, ChecksumVaddrs
  <2>2. Describes(map)' <=> Describes(map)
    BY <1>2 DEF Describes
  <2>3. Summed(map)' <=> Summed(map)
    BY <2>1, <2>2 DEF Summed
  <2>4. Written(map)' <=> Written(map)
    BY <1>2, <2>1, <2>3 DEF Written
  <2> QED BY <2>1, <2>2, <2>3, <2>4
<1>3. /\ (mgr \in {"map_restore", "read_mappings"} => settings.ok /\ settings.pid = fvp)'
      /\ (mgr = "write_sum" => Describes(map))'
      /\ (mgr = "open_mappings" => Summed(map))'
      /\ (mgr = "write_mappings" => Written(map))'
  BY <1>2 DEF FilesInv
<1>4. (mgr = "continue" /\ ~failed =>
         Written(map) /\ Dumped(map) \subseteq DOMAIN mapping.entries)'
  BY <1>2 DEF FilesInv
<1> QED BY <1>1, <1>3, <1>4 DEF FilesInv

(* The sum that save_settings writes is one of pages of this FVP.          *)
LEMMA SummedPages ==
  ASSUME BaseOK, Shape(map), Faithful(map)
  PROVE  \E S \in SUBSET (DOMAIN Layout[fvp] \cap map.min..map.max - 1) :
           ChecksumVaddrs(map) = AddrSum(fvp, S, map.min, map.max)
<1>0. map.min \in Nat /\ map.max \in Nat
  BY PageFacts DEF BaseOK, Shape, Pages
<1> DEFINE S == {p \in DOMAIN Layout[fvp] \cap map.min..map.max - 1 : map.vaddr[p] # 0}
<1>1. ASSUME NEW p \in map.min..map.max - 1
      PROVE  map.vaddr[p] = IF p \in S THEN Layout[fvp][p] ELSE 0
  <2>1. p \in map.min..map.max /\ p # map.max
    BY <1>0
  <2>2. map.vaddr[p] = 0 \/ (p \in Pages /\ map.vaddr[p] = Layout[fvp][p])
    BY <2>1 DEF Faithful
  <2> QED BY <2>2 DEF Pages
<1>2. S \in SUBSET (DOMAIN Layout[fvp] \cap map.min..map.max - 1)
  OBVIOUS
<1> HIDE DEF S
<1> QED BY <1>1, <1>2, ChecksumOfPages

LEMMA FilesWritten ==
  ASSUME BootInv,
         OpenSettings \/ WriteSettings \/ WriteSum \/ OpenMappings \/ WriteMapping
  PROVE  FilesInv'
<1>0. BaseOK /\ MapInv /\ FilesInv /\ fvp \in Fvps
  BY DEF BootInv, BaseOK
<1>1. /\ mgr \in SaveStates /\ UNCHANGED <<map, fvp, failed>>
      /\ Shape(map) /\ Faithful(map)
  BY <1>0 DEF OpenSettings, WriteSettings, WriteSum, OpenMappings, WriteMapping, MapInv,
              SaveStates, Goto, guestVars
<1>2. /\ map.min \in DOMAIN Layout[fvp] /\ map.max \in DOMAIN Layout[fvp]
      /\ map.min < map.max /\ map.min \in Nat /\ map.max \in Nat
  BY <1>0, <1>1, PageFacts DEF Shape, Pages
<1>3. CASE OpenSettings
  <2>1. settings' = NoFile /\ mapping' = mapping /\ mgr' = "write_settings"
    BY <1>3 DEF OpenSettings, Goto
  <2> QED BY <1>0, <2>1 DEF FilesInv, SettingsInv, MappingInv
<1>4. CASE WriteSettings
  <2>1. /\ settings' = [ok |-> TRUE, pid |-> fvp, min |-> map.min, max |-> map.max, sum |-> 0]
        /\ mapping' = mapping /\ mgr' = "write_sum"
    BY <1>4 DEF WriteSettings, Goto
  <2>2. SettingsInv'
    BY <1>0, <1>2, <2>1 DEF SettingsInv
  <2>3. MappingInv'
    BY <1>0, <2>1 DEF FilesInv, MappingInv
  <2>4. Describes(map)'
    BY <1>1, <2>1 DEF Describes
  <2> QED BY <2>1, <2>2, <2>3, <2>4 DEF FilesInv
<1>5. CASE WriteSum
  <2>1. /\ settings' = [settings EXCEPT !.sum = ChecksumVaddrs(map)]
        /\ mapping' = mapping /\ mgr = "write_sum" /\ mgr' = "open_mappings"
    BY <1>5 DEF WriteSum, Goto
  <2>2. Describes(map) /\ settings # NoFile
    BY <1>0, <2>1, NoFileFacts DEF FilesInv, Describes
  <2>3. settings' = [ok |-> TRUE, pid |-> fvp, min |-> map.min, max |-> map.max,
                     sum |-> ChecksumVaddrs(map)]
    <3>1. PICK x : settings = [ok |-> TRUE, pid |-> fvp, min |-> map.min, max |-> map.max,
                               sum |-> x]
      BY <1>0, <2>2 DEF FilesInv, SettingsInv, Describes
    <3> QED BY <2>1, <3>1
  <2>4. SettingsInv'
    BY <1>0, <1>1, <1>2, <2>3, SummedPages DEF SettingsInv
  <2>5. MappingInv'
    BY <1>0, <2>1 DEF FilesInv, MappingInv
  <2>6. Summed(map)'
    BY <1>1, <2>3 DEF Describes, Summed, ChecksumVaddrs
  <2> QED BY <2>1, <2>4, <2>5, <2>6 DEF FilesInv
<1>6. CASE OpenMappings
  <2>1. /\ mapping' = [ok |-> TRUE, entries |-> NoFun] /\ settings' = settings
        /\ mgr = "open_mappings" /\ mgr' = "write_mappings"
    BY <1>6 DEF OpenMappings, Goto
  <2>2. DOMAIN mapping'.entries = {} /\ mapping'.ok
    BY <2>1 DEF NoFun
  <2>3. SettingsInv' /\ MappingInv'
    BY <1>0, <2>1, <2>2 DEF FilesInv, SettingsInv, MappingInv
  <2>4. Summed(map)'
    BY <1>0, <1>1, <2>1 DEF FilesInv, Describes, Summed, ChecksumVaddrs
  <2>5. Written(map)'
    BY <2>2, <2>4 DEF Written
  <2> QED BY <2>1, <2>3, <2>5 DEF FilesInv
<1>7. CASE WriteMapping
  <2>1. mgr = "write_mappings" /\ settings' = settings /\ Written(map)
    BY <1>0, <1>7 DEF WriteMapping, FilesInv
  <2>2. SettingsInv' /\ Summed(map)' /\ Dumped(map)' = Dumped(map)
    BY <1>0, <1>1, <2>1
    DEF FilesInv, SettingsInv, Written, Summed, Describes, ChecksumVaddrs, Dumped
  <2>3. CASE Dumped(map) \ DOMAIN mapping.entries = {} /\ mgr' = "continue" /\ UNCHANGED mapping
    <3>1. Written(map)'
      BY <1>1, <2>1, <2>2, <2>3 DEF Written
    <3> QED BY <1>0, <2>2, <2>3, <3>1 DEF FilesInv, MappingInv
  <2>4. CASE mgr' = mgr /\ \E first \in Dumped(map) \ DOMAIN mapping.entries :
               mapping' = [mapping EXCEPT !.entries =
                             [p \in DOMAIN mapping.entries \cup {first} |-> map.vaddr[p]]]
    <3>1. PICK first \in Dumped(map) :
            mapping' = [mapping EXCEPT !.entries =
                          [p \in DOMAIN mapping.entries \cup {first} |-> map.vaddr[p]]]
      BY <2>4
    <3>2. PICK x : mapping = [ok |-> TRUE, entries |-> x]
      BY <1>0, <2>1, NoFileFacts DEF FilesInv, MappingInv, Written
    <3> DEFINE e == [p \in DOMAIN mapping.entries \cup {first} |-> map.vaddr[p]]
    <3>3. mapping' = [ok |-> TRUE, entries |-> e]
      BY <3>1, <3>2
    <3>4. DOMAIN e \subseteq Dumped(map) /\ \A p \in DOMAIN e : e[p] = map.vaddr[p]
      BY <2>1, <3>1 DEF Written
    <3> HIDE DEF e
    <3>5. mapping'.ok /\ mapping'.entries = e
      BY <3>3
    <3>6. Written(map)'
      BY <1>1, <2>2, <3>4, <3>5 DEF Written
    <3>7. \A p \in Dumped(map) : p \in DOMAIN Layout[fvp] /\ map.vaddr[p] = Layout[fvp][p]
      BY <1>1, <1>2 DEF Dumped, Faithful, Pages
    <3>8. MappingInv'
      BY <1>0, <3>3, <3>4, <3>5, <3>7 DEF MappingInv
    <3> QED BY <2>1, <2>2, <2>4, <3>6, <3>8 DEF FilesInv
  <2> QED BY <1>7, <2>3, <2>4 DEF WriteMapping
<1> QED BY <1>3, <1>4, <1>5, <1>6, <1>7

LEMMA FilesStep == BootInv /\ [Next]_vars => FilesInv'
<1> SUFFICES ASSUME BootInv, [Next]_vars PROVE FilesInv'
  OBVIOUS
<1>0. FilesInv
  BY DEF BootInv
<1> USE DEF Goto, GiveUp, Fault, guestVars, fileVars, procVars, vars
<1>1. CASE OpenSettings \/ WriteSettings \/ WriteSum \/ OpenMappings \/ WriteMapping
  BY <1>1, FilesWritten
<1>2. CASE Start
  BY <1>0, <1>2, FilesKept DEF Start
<1>3. CASE ReadSettings
  BY <1>0, <1>3, FilesKept DEF ReadSettings, Abandon
<1>4. CASE RestoreFails
  BY <1>0, <1>4, FilesKept DEF RestoreFails, Abandon
<1>5. CASE MapPage("map_restore", "restore") \/ MapDone("map_restore", "restore", "read_mappings")
  BY <1>0, <1>5, FilesKept DEF MapPage, MapDone, FilesInv
<1>6. CASE MapPage("map_scan", "scan") \/ MapDone("map_scan", "scan", "tell_wait")
  BY <1>0, <1>6, FilesKept DEF MapPage, MapDone
<1>7. CASE ReadMappings
  BY <1>0, <1>7, FilesKept DEF ReadMappings, Abandon
<1>8. CASE FindEscapePage \/ TellWait \/ BootMapFails
  BY <1>0, <1>8, FilesKept DEF FindEscapePage, TellWait, BootMapFails
<1>9. CASE Scan
  BY <1>0, <1>9, FilesKept DEF Scan
<1>10. CASE ScanFails
  BY <1>0, <1>10, FilesKept DEF ScanFails
<1>11. CASE SaveFails \/ ContinueGuest
  BY <1>0, <1>11, FilesKept DEF SaveFails, ContinueGuest
<1>12. CASE Verify \/ EnableTraceFails \/ ListenerEnds
  BY <1>0, <1>12, FilesKept DEF Verify, EnableTraceFails, ListenerEnds
<1>13. CASE UnmapFvpMemory \/ DisableTrace \/ Signal
  BY <1>0, <1>13, FilesKept DEF UnmapFvpMemory, DisableTrace, Signal, Exit
<1>14. CASE GuestOffers \/ GuestContinues \/ GuestGivesUp \/ FaulthookInit \/ UNCHANGED vars
  BY <1>0, <1>14, FilesKept
  DEF GuestOffers, GuestContinues, GuestGivesUp, FaulthookInit, FilesInv
<1>15. CASE FvpRestart
  BY <1>0, <1>15, FilesKept DEF FvpRestart
<1> QED
  BY <1>1, <1>2, <1>3, <1>4, <1>5, <1>6, <1>7, <1>8, <1>9, <1>10, <1>11, <1>12, <1>13,
     <1>14, <1>15
  DEF Next, Main, Environment, MapMemoryFromFile, MapMemoryFvpBoot, SaveSettings
-----------------------------------------------------------------------------
(* The handshake.                                                          *)

LEMMA GuestStep == BootInv /\ [Next]_vars => GuestInv'
<1> SUFFICES ASSUME BootInv, [Next]_vars PROVE GuestInv'
  OBVIOUS
<1>0. GuestInv
  BY DEF BootInv, HandshakeInv
<1> USE DEF GuestInv, SaveStates, Goto, GiveUp, Fault, guestVars, fileVars, procVars, vars
<1>1. CASE OpenSettings \/ WriteSettings \/ WriteSum \/ OpenMappings
  BY <1>0, <1>1 DEF OpenSettings, WriteSettings, WriteSum, OpenMappings
<1>2. CASE WriteMapping
  <2>1. /\ mgr = "write_mappings" /\ mgr' \in {"continue", mgr}
        /\ UNCHANGED <<guest, go, magic>>
    BY <1>2 DEF WriteMapping
  <2> QED BY <1>0, <2>1
<1>3. CASE Start \/ ReadSettings \/ RestoreFails \/ ReadMappings
  BY <1>0, <1>3 DEF Start, ReadSettings, RestoreFails, ReadMappings, Abandon
<1>4. CASE MapPage("map_restore", "restore") \/ MapDone("map_restore", "restore", "read_mappings")
  BY <1>0, <1>4 DEF MapPage, MapDone
<1>5. CASE MapPage("map_scan", "scan") \/ MapDone("map_scan", "scan", "tell_wait")
  BY <1>0, <1>5 DEF MapPage, MapDone
<1>6. CASE FindEscapePage \/ TellWait \/ BootMapFails
  BY <1>0, <1>6 DEF FindEscapePage, TellWait, BootMapFails
<1>7. CASE Scan
  BY <1>0, <1>7 DEF Scan
<1>8. CASE ScanFails
  BY <1>0, <1>8 DEF ScanFails
<1>9. CASE SaveFails \/ ContinueGuest
  BY <1>0, <1>9 DEF SaveFails, ContinueGuest
<1>10. CASE Verify \/ EnableTraceFails \/ ListenerEnds
  BY <1>0, <1>10 DEF Verify, EnableTraceFails, ListenerEnds
<1>11. CASE UnmapFvpMemory \/ DisableTrace \/ Signal
  BY <1>0, <1>11 DEF UnmapFvpMemory, DisableTrace, Signal, Exit
<1>12. CASE GuestOffers \/ GuestContinues
  BY <1>0, <1>12 DEF GuestOffers, GuestContinues
<1>13. CASE GuestGivesUp \/ FaulthookInit \/ FvpRestart
  BY <1>0, <1>13 DEF GuestGivesUp, FaulthookInit, FvpRestart
<1>14. CASE UNCHANGED vars
  BY <1>0, <1>14
<1> QED
  BY <1>1, <1>2, <1>3, <1>4, <1>5, <1>6, <1>7, <1>8, <1>9, <1>10, <1>11, <1>12, <1>13, <1>14
  DEF Next, Main, Environment, MapMemoryFromFile, MapMemoryFvpBoot, SaveSettings

LEMMA SameSaved ==
  ASSUME Saved, UNCHANGED <<settings, mapping, fvp>> PROVE Saved'
<1>1. Restored' = Restored
  BY DEF Restored
<1>2. CompleteBelow(Restored)' /\ ChecksumVaddrs(Restored)' = ChecksumVaddrs(Restored)
  BY <1>1 DEF CompleteBelow, ChecksumVaddrs, Pages, Saved
<1> QED BY <1>2 DEF Saved

LEMMA SameComplete ==
  ASSUME CompleteBelow(map), UNCHANGED <<map, fvp>> PROVE CompleteBelow(map)'
BY DEF CompleteBelow, Pages

(* A step that leaves the files and the words of the handshake alone.      *)
LEMMA HostKept ==
  ASSUME HostInv, UNCHANGED <<settings, mapping, fvp, go>>,
         guest' # "native" /\ ~failed' => guest # "native" /\ ~failed,
         guest' = "running" => guest = "running" \/ go = "go",
         mgr' \in SaveStates => mgr \in SaveStates /\ UNCHANGED map,
         mgr' \in ScanStates => mgr \in ScanStates,
         mgr' \in UseStates => mgr \in UseStates /\ UNCHANGED map
  PROVE  HostInv'
<1> SUFFICES ASSUME guest' # "native", ~failed'
             PROVE  /\ guest' = "running" => go' = "go"
                    /\ mgr' \in SaveStates => CompleteBelow(map)'
                    /\ go' = "go" => /\ mgr' \notin ScanStates \cup SaveStates
                                     /\ Saved'
                                     /\ mgr' \in UseStates => CompleteBelow(map)'
  BY DEF HostInv, MapInUse, UseStates
<1>1. /\ guest = "running" => go = "go"
      /\ mgr \in SaveStates => CompleteBelow(map)
      /\ go = "go" => /\ mgr \notin ScanStates \cup SaveStates
                      /\ Saved
                      /\ mgr \in UseStates => CompleteBelow(map)
  BY DEF HostInv, MapInUse, UseStates
<1> QED BY <1>1, SameSaved, SameComplete

(* save_settings writes while the guest waits.                             *)
LEMMA HostSaves ==
  ASSUME HostInv, mgr \in SaveStates, mgr' \in SaveStates,
         UNCHANGED <<map, fvp, go, guest>>, failed' = failed \/ failed'
  PROVE  HostInv'
<1>1. CASE guest = "native" \/ failed'
  BY <1>1 DEF HostInv
<1>2. CASE guest # "native" /\ ~failed'
  <2>1. ~failed /\ go # "go" /\ guest # "running" /\ CompleteBelow(map)
    BY <1>2 DEF HostInv
  <2> QED BY <2>1, SameComplete DEF HostInv
<1> QED BY <1>1, <1>2

(* What has been written is what a later manager restores.                 *)
LEMMA WrittenIsSaved ==
  ASSUME BaseOK, Shape(map), CompleteBelow(map), Written(map),
         Dumped(map) \subseteq DOMAIN mapping.entries
  PROVE  Saved
<1>1. /\ settings.ok /\ settings.pid = fvp /\ settings.min = map.min
      /\ settings.max = map.max /\ settings.sum = ChecksumVaddrs(map) /\ mapping.ok
      /\ fvp \in Fvps
  BY DEF Written, Summed, Describes, BaseOK
<1>2. map.min \in Nat /\ map.max \in Nat /\ \A p \in Pages : p \in Nat
  BY <1>1, PageFacts DEF Shape, Pages
<1>3. /\ Restored.min = map.min /\ Restored.max = map.max
      /\ \A p \in map.min..map.max :
           Restored.vaddr[p] = IF p \in DOMAIN mapping.entries
                               THEN mapping.entries[p] ELSE 0
  BY <1>1, <1>2, RestoredFacts
<1>4. \A p \in map.min..map.max - 1 : Restored.vaddr[p] = map.vaddr[p]
  BY <1>2, <1>3 DEF Written, Dumped
<1>5. ChecksumVaddrs(Restored) = ChecksumVaddrs(map)
  BY <1>3, <1>4, SameChecksum
<1>6. CompleteBelow(Restored)
  BY <1>2, <1>3, <1>4 DEF CompleteBelow
<1> QED BY <1>1, <1>5, <1>6 DEF Saved
LEMMA HostStep == BootInv /\ [Next]_vars => HostInv'
<1> SUFFICES ASSUME BootInv, [Next]_vars PROVE HostInv'
  OBVIOUS
<1>0. BaseOK /\ MapInv /\ FilesInv /\ GuestInv /\ HostInv
  BY DEF BootInv, HandshakeInv
<1> USE DEF Goto, GiveUp, Fault, guestVars, fileVars, procVars, vars
<1>1. CASE OpenSettings \/ WriteSettings \/ WriteSum \/ OpenMappings
  BY <1>0, <1>1, HostSaves DEF OpenSettings, WriteSettings, WriteSum, OpenMappings, SaveStates
<1>2. CASE WriteMapping
  <2>1. /\ mgr = "write_mappings" /\ mgr' \in {"continue", mgr}
        /\ UNCHANGED <<map, fvp, go, guest, failed>>
    BY <1>2 DEF WriteMapping
  <2> QED BY <1>0, <2>1, HostSaves DEF SaveStates
<1>3. CASE SaveFails \/ RestoreFails \/ BootMapFails \/ EnableTraceFails
  BY <1>3 DEF SaveFails, RestoreFails, BootMapFails, EnableTraceFails, HostInv
<1>4. CASE Start
  BY <1>0, <1>4, HostKept DEF Start, SaveStates, ScanStates, UseStates
<1>5. CASE ReadSettings
  <2>1. CASE settings.ok /\ settings.pid = fvp
    BY <1>0, <1>5, <2>1, HostKept DEF ReadSettings, SaveStates, ScanStates, UseStates
  <2>2. CASE ~(settings.ok /\ settings.pid = fvp)
    <3>1. /\ mgr' = "find_escape" /\ UNCHANGED <<guest, go, failed, settings, fvp>>
      BY <1>5, <2>2 DEF ReadSettings, Abandon
    <3>2. guest # "native" /\ ~failed => go # "go" /\ guest # "running"
      BY <1>0, <2>2 DEF HostInv, Saved
    <3> QED BY <3>1, <3>2 DEF HostInv, SaveStates
  <2> QED BY <2>1, <2>2
<1>6. CASE ReadMappings
  <2>1. CASE mapping.ok /\ ChecksumVaddrs(Restored) = settings.sum
    <3>1. /\ mgr = "read_mappings" /\ mgr' = "verify" /\ map' \in Stored(Restored)
          /\ UNCHANGED <<guest, go, failed, settings, mapping, fvp>>
      BY <1>6, <2>1 DEF ReadMappings
    <3>2. CompleteBelow(Restored) => CompleteBelow(map')
      BY <1>0, <2>1, <3>1, RestoreMap
    <3>3. CompleteBelow(map') => CompleteBelow(map)'
      BY <3>1 DEF CompleteBelow, Pages
    <3>4. ASSUME guest # "native", ~failed, go = "go" PROVE Saved' /\ CompleteBelow(map)'
      <4>1. Saved
        BY <1>0, <3>4 DEF HostInv
      <4>2. CompleteBelow(Restored)
        BY <4>1 DEF Saved
      <4> QED BY <3>1, <3>2, <3>3, <4>1, <4>2, SameSaved
    <3>5. guest # "native" /\ ~failed => (guest = "running" => go = "go")
      BY <1>0 DEF HostInv
    <3> QED BY <3>1, <3>4, <3>5 DEF HostInv, SaveStates, ScanStates
  <2>2. CASE ~(mapping.ok /\ ChecksumVaddrs(Restored) = settings.sum)
    <3>1. /\ mgr' = "find_escape"
          /\ UNCHANGED <<guest, go, failed, settings, mapping, fvp>>
      BY <1>6, <2>2 DEF ReadMappings, Abandon
    <3>2. guest # "native" /\ ~failed => go # "go" /\ guest # "running"
      BY <1>0, <2>2 DEF HostInv, Saved
    <3> QED BY <3>1, <3>2 DEF HostInv, SaveStates
  <2> QED BY <2>1, <2>2
<1>7. CASE MapPage("map_restore", "restore") \/ MapDone("map_restore", "restore", "read_mappings")
  BY <1>0, <1>7, HostKept DEF MapPage, MapDone, SaveStates, ScanStates, UseStates
<1>8. CASE MapPage("map_scan", "scan") \/ MapDone("map_scan", "scan", "tell_wait")
  BY <1>0, <1>8, HostKept DEF MapPage, MapDone, SaveStates, ScanStates, UseStates
<1>9. CASE FindEscapePage
  BY <1>0, <1>9, HostKept DEF FindEscapePage, SaveStates, ScanStates, UseStates
<1>10. CASE TellWait
  <2>1. /\ mgr = "tell_wait" /\ mgr' = "scan" /\ go' = "wait" /\ UNCHANGED <<guest, failed>>
    BY <1>10 DEF TellWait
  <2>2. guest # "native" /\ ~failed => guest # "running"
    BY <1>0, <2>1 DEF HostInv, ScanStates
  <2> QED BY <2>1, <2>2 DEF HostInv, SaveStates
<1>11. CASE Scan
  <2>1. /\ mgr = "scan" /\ mgr' = "open_settings" /\ UNCHANGED <<guest, go, failed>>
    BY <1>11 DEF Scan
  <2>2. guest # "booting"
    BY <1>0, <2>1 DEF GuestInv
  <2>3. ASSUME guest # "native", ~failed PROVE guest = "waiting" /\ go # "go"
    BY <1>0, <2>1, <2>2, <2>3 DEF HostInv, ScanStates, BaseOK
  <2>4. guest = "waiting" => CompleteBelow(map)'
    BY <1>0, <1>11, ScanMap
  <2> QED BY <2>1, <2>3, <2>4 DEF HostInv
<1>12. CASE ScanFails
  <2>1. /\ mgr' = "clean_up" /\ UNCHANGED <<settings, mapping, fvp, go, guest>>
        /\ failed' \/ failed' = failed
    BY <1>12 DEF ScanFails
  <2> QED BY <1>0, <2>1, HostKept DEF SaveStates, ScanStates, UseStates
<1>13. CASE ContinueGuest
  <2>1. /\ mgr = "continue" /\ mgr' = "verify" /\ go' = "go"
        /\ UNCHANGED <<guest, failed, map, fvp, settings, mapping>>
    BY <1>13 DEF ContinueGuest
  <2>2. ASSUME guest # "native", ~failed PROVE Saved' /\ CompleteBelow(map)'
    <3>1. CompleteBelow(map)
      BY <1>0, <2>1, <2>2 DEF HostInv, SaveStates
    <3>2. Shape(map) /\ Written(map) /\ Dumped(map) \subseteq DOMAIN mapping.entries
      BY <1>0, <2>1, <2>2 DEF MapInv, FilesInv, SaveStates
    <3> QED BY <1>0, <2>1, <3>1, <3>2, WrittenIsSaved, SameSaved, SameComplete
  <2> QED BY <2>1, <2>2 DEF HostInv, SaveStates, ScanStates
<1>14. CASE Verify \/ ListenerEnds
  BY <1>0, <1>14, HostKept DEF Verify, ListenerEnds, SaveStates, ScanStates, UseStates
<1>15. CASE UnmapFvpMemory \/ DisableTrace \/ Signal
  BY <1>0, <1>15, HostKept
  DEF UnmapFvpMemory, DisableTrace, Signal, Exit, SaveStates, ScanStates, UseStates
<1>16. CASE GuestOffers \/ GuestContinues \/ FaulthookInit \/ UNCHANGED vars
  BY <1>0, <1>16, HostKept DEF GuestOffers, GuestContinues, FaulthookInit
<1>17. CASE GuestGivesUp
  BY <1>17 DEF GuestGivesUp, HostInv
<1>18. CASE FvpRestart
  BY <1>18 DEF FvpRestart, HostInv, SaveStates
<1> QED
  BY <1>1, <1>2, <1>3, <1>4, <1>5, <1>6, <1>7, <1>8, <1>9, <1>10, <1>11, <1>12, <1>13,
     <1>14, <1>15, <1>16, <1>17, <1>18
  DEF Next, Main, Environment, MapMemoryFromFile, MapMemoryFvpBoot, SaveSettings

-----------------------------------------------------------------------------
LEMMA BootInvariant == Spec => []BootInv
<1>1. BootInv /\ [Next]_vars => BootInv'
  BY BaseStep, MapStep, FilesStep, GuestStep, HostStep DEF BootInv, HandshakeInv
<1> QED BY <1>1, BootStart, PTL DEF Spec

(* The type invariant of the manager's life.                               *)
THEOREM BootTypes == Spec => []TypeOK
<1>1. BootInv => TypeOK
  <2> SUFFICES ASSUME BootInv PROVE TypeOK
    OBVIOUS
  <2>1. BaseOK /\ MapInv /\ SettingsInv
    BY DEF BootInv, FilesInv
  <2>2. settings.ok => settings.min <= settings.max
    <3>1. settings.ok => settings # NoFile
      BY NoFileFacts
    <3> QED BY <2>1, <3>1, PageFacts DEF SettingsInv
  <2>3. DOMAIN map.vaddr = IF map = NoMap THEN {} ELSE map.min..map.max
    <3>1. map = NoMap \/ Shape(map)
      BY <2>1 DEF MapInv, MapInUse
    <3>2. map = NoMap => DOMAIN map.vaddr = {}
      BY DEF NoMap, NoFun
    <3> QED BY <3>1, <3>2 DEF Shape
  <2> QED BY <2>1, <2>2, <2>3 DEF TypeOK, BaseOK
<1> QED BY <1>1, BootInvariant, PTL

(* Whatever crashes between the writes of SETTING_FILE and MAPPING_FILE    *)
(* and whatever restarts of manager and FVP precede, read_mappings and     *)
(* fvpmem_scan_addresses leave only addresses of the FVP that runs now.    *)
(* For layouts whose checksums differ (BootAssumption): the code adds the  *)
(* addresses up, and two layouts with the same sum it takes for the same.  *)
THEOREM AddressesAreFaithful == Spec => []MapFaithful
<1>1. BootInv => MapFaithful
  <2> SUFFICES ASSUME BootInv, MapInUse, NEW p \in map.min..map.max
               PROVE  \/ Vaddr(map, p) = 0
                      \/ p \in Pages /\ Vaddr(map, p) = Layout[fvp][p]
                      \/ p = map.max /\ PastEnd(map)
                      \/ p = map.max /\ \A q \in map.min..map.max - 1 : Vaddr(map, q) = 0
    BY DEF MapFaithful
  <2>1. Shape(map) /\ FaithfulOrLast(map) /\ fvp \in Fvps
    BY DEF BootInv, MapInv, BaseOK
  <2>2. map.min \in Nat /\ map.max \in Nat
    BY <2>1, PageFacts DEF Shape, Pages
  <2>3. \A q \in map.min..map.max : Vaddr(map, q) = map.vaddr[q]
    BY DEF Vaddr
  <2>4. CASE Faithful(map)
    BY <2>3, <2>4 DEF Faithful
  <2>5. CASE \A q \in map.min..map.max - 1 : map.vaddr[q] = 0
    BY <2>2, <2>3, <2>5
  <2> QED BY <2>1, <2>4, <2>5 DEF FaithfulOrLast
<1> QED BY <1>1, BootInvariant, PTL

(* A manager that serves a guest which left the handshake knows every page *)
(* but the last, whether fvpmem_scan_addresses or read_mappings found it;  *)
(* again for layouts whose checksums differ, and as long as no map, file   *)
(* or trace failed in the life of this FVP.                                *)
THEOREM MapsAreComplete == Spec => []MapCompleteBelowMax
<1>1. BootInv => MapCompleteBelowMax
  <2> SUFFICES ASSUME BootInv, MapInUse, guest = "running", ~failed,
                      NEW p \in Pages, NEW q \in Pages, p < q
               PROVE  Vaddr(map, p) = Layout[fvp][p]
    BY DEF MapCompleteBelowMax
  <2>1. CompleteBelow(map)
    BY DEF BootInv, HandshakeInv, HostInv
  <2>2. p \in Nat /\ q \in Nat /\ map.min \in Nat /\ map.max \in Nat
    BY PageFacts DEF BootInv, BaseOK, MapInv, Shape, Pages
  <2>3. map.min <= p /\ p < map.max /\ map.vaddr[p] = Layout[fvp][p]
    BY <2>1, <2>2 DEF CompleteBelow
  <2> QED BY <2>2, <2>3 DEF Vaddr
<1> QED BY <1>1, BootInvariant, PTL

(* As long as a guest runs that left the handshake, SETTING_FILE and       *)
(* MAPPING_FILE belong to it and pass both comparisons of a restart;       *)
(* provided that no map, file or trace failed in the life of this FVP, as  *)
(* main does not look at the result of save_settings.                      *)
THEOREM ManagerCanRestart == Spec => []Recoverable
<1>1. BootInv => Recoverable
  BY DEF BootInv, HandshakeInv, HostInv, Saved, Recoverable
<1> QED BY <1>1, BootInvariant, PTL
================================================================================
