--------------------------- MODULE LogStore_proofs ---------------------------
(***************************************************************************)
(* Proofs about LogStore, for every number of sessions and tasks.          *)
(***************************************************************************)
EXTENDS LogStore, TLAPS

\* A session in a call has ids left for the tasks it has still to hydrate.
IdsLeft ==
    \A s \in Sessions :
        /\ pc[s] = "load" => todo[s] >= 1 /\ made[s] + todo[s] <= MaxIds
        /\ pc[s] \in {"open", "dump", "backend"} =>
             todo[s] >= 1 /\ made[s] >= 1 /\ made[s] + todo[s] <= MaxIds + 1

\* Sessions register, the cleaner cleans, and nobody else does either.
OwnPlaces == (\A s \in Sessions : pc[s] # "unlink") /\ pc[Cleaner] \notin {"load", "backend"}

\* The entry of its own session is in what register is about to dump.
EntryReady ==
    \A s \in Sessions : pc[s] \in {"open", "dump"} => s \in DOMAIN copy[s]

\* As long as no two calls overlap, one actor at most is in a call.
OneCall == ~overlapped => \A a, b \in Actors : Busy(a) /\ Busy(b) => a = b

\* Then nobody has dumped between the open and the dump of a call.
StillEmpty == ~overlapped => \A a \in Actors : pc[a] = "dump" => file = "empty"

IInv == TypeOK /\ IdsLeft /\ OwnPlaces /\ EntryReady /\ OneCall /\ StillEmpty /\ IndexReadable

-----------------------------------------------------------------------------
LEMMA NoSessionsIsIndex == IsIndex(NoSessions)
<1> QED BY DEF IsIndex, NoSessions

LEMMA InitInv == Init => IInv
<1> SUFFICES ASSUME Init PROVE IInv
  OBVIOUS
<1> USE LogStoreAssumption DEF Init, Actors
<1>1. TypeOK
  <2>1. IsIndex(index) /\ DOMAIN copy = Actors /\ \A a \in Actors : copy[a] = NoSessions
    BY NoSessionsIsIndex
  <2>2. \A a \in Actors : IsIndex(copy[a])
    BY <2>1, NoSessionsIsIndex, Zenon
  <2>3. made \in [Sessions -> 0..MaxIds] /\ todo \in [Sessions -> 0..NTasks] /\ lastAt \in [Sessions -> Nat]
    OBVIOUS
  <2> QED BY <2>1, <2>2, <2>3 DEF TypeOK, Places
<1>2. IdsLeft /\ OwnPlaces /\ EntryReady
  BY DEF IdsLeft, OwnPlaces, EntryReady
<1>3. OneCall /\ StillEmpty /\ IndexReadable
  BY DEF OneCall, StillEmpty, Busy, IndexReadable, Broken
<1> QED BY <1>1, <1>2, <1>3 DEF IInv

LEMMA TypeInv == ASSUME IInv, Next PROVE TypeOK'
<1> USE LogStoreAssumption DEF IInv, Actors, Places, Broken
<1>0. MaxAge \in Nat
  BY DEF MaxAge
<1>1. ASSUME NEW s \in Sessions, Execute(s) PROVE TypeOK'
  BY <1>1 DEF TypeOK, Execute, Begin, Goto, disk
<1>2. ASSUME NEW s \in Sessions, Load(s) PROVE TypeOK'
  <2>1. made[s] + 1 \in 1..MaxIds /\ made[s] \in 0..MaxIds
    BY <1>2 DEF TypeOK, IdsLeft, Load, GetName
  <2>2. made' \in [Sessions -> 0..MaxIds]
    BY <1>2, <2>1 DEF TypeOK, Load, GetName
  <2>3. Entry(s) \in Data
    BY <2>1 DEF TypeOK, Entry, Data
  <2>4. IsIndex(Loaded(s))
    <3>1. DOMAIN index \subseteq Sessions /\ index \in [DOMAIN index -> Data]
      BY DEF TypeOK, IsIndex
    <3> QED BY <2>3, <3>1 DEF Loaded, IsIndex
  <2>5. DOMAIN copy' = Actors /\ \A b \in Actors : IsIndex(copy'[b])
    BY <1>2, <2>4 DEF TypeOK, Load, GetName
  <2> QED BY <1>2, <2>2, <2>5 DEF TypeOK, Load, GetName, Goto, disk
<1>3. ASSUME NEW s \in Sessions, MakeRunner(s) PROVE TypeOK'
  <2>1. todo[s] - 1 \in 0..NTasks /\ made[s] \in 1..MaxIds
    BY <1>3 DEF TypeOK, IdsLeft, MakeRunner
  <2> QED BY <1>3, <2>1 DEF TypeOK, MakeRunner, Goto
<1>4. CASE Cleanup
  <2> DEFINE kept == Restrict(index, {s \in DOMAIN index : ~Expired(s)})
  <2>0. DOMAIN index \subseteq Sessions /\ index \in [DOMAIN index -> Data]
    BY DEF TypeOK, IsIndex
  <2>1. IsIndex(kept)
    BY <2>0 DEF Restrict, IsIndex
  <2>2. DOMAIN copy' = Actors /\ \A b \in Actors : IsIndex(copy'[b]) /\ doomed' \subseteq Sessions
    BY <1>4, <2>0, <2>1 DEF TypeOK, Cleanup
  <2> QED BY <1>4, <2>2 DEF TypeOK, Cleanup, Begin, Goto, disk
<1>5. CASE UnlinkOne
  BY <1>5 DEF TypeOK, UnlinkOne, Unlink
<1>6. CASE Unlinked
  BY <1>6 DEF TypeOK, Unlinked, Goto, disk
<1>7. ASSUME NEW a \in Actors, Open(a) PROVE TypeOK'
  BY <1>7, NoSessionsIsIndex DEF TypeOK, Open, Goto
<1>8. ASSUME NEW a \in Actors, Dumped(a) PROVE TypeOK'
  <2>1. file' \in {"absent", "json"} \cup Broken
    BY <1>8 DEF TypeOK, Dumped, Dump
  <2>2. IsIndex(index')
    BY <1>8, NoSessionsIsIndex DEF TypeOK, Dumped, Dump
  <2>3. DOMAIN copy' = Actors /\ \A b \in Actors : IsIndex(copy'[b])
    BY <1>8, NoSessionsIsIndex DEF TypeOK, Dumped
  <2>4. lastAt' \in [Sessions -> Nat]
    <3>1. CASE a = Cleaner
      BY <1>8, <3>1 DEF TypeOK, Dumped
    <3>2. CASE a # Cleaner
      <4>1. a \in DOMAIN copy[a] /\ copy[a] \in [DOMAIN copy[a] -> Data]
        BY <1>8, <3>2 DEF TypeOK, IsIndex, EntryReady, Dumped
      <4>2. copy[a][a].timestamp \in Nat
        BY <4>1 DEF Data
      <4> QED BY <1>8, <3>2, <4>2 DEF TypeOK, Dumped
    <3> QED BY <3>1, <3>2
  <2>5. pc' \in [Actors -> Places]
    BY <1>8 DEF TypeOK, Dumped, Goto
  <2> QED BY <1>8, <2>1, <2>2, <2>3, <2>4, <2>5 DEF TypeOK, Dumped
<1>9. ASSUME NEW a \in Actors, Crash(a) PROVE TypeOK'
  <2>1. DOMAIN copy' = Actors /\ \A b \in Actors : IsIndex(copy'[b])
    BY <1>9, NoSessionsIsIndex DEF TypeOK, Crash
  <2> QED BY <1>9, <2>1 DEF TypeOK, Crash, Goto, disk
<1>10. CASE Tick
  BY <1>10, <1>0 DEF TypeOK, Tick, disk
<1> QED BY <1>1, <1>2, <1>3, <1>4, <1>5, <1>6, <1>7, <1>8, <1>9, <1>10 DEF Next, Register

\* Where everybody stands.
LEMMA PlacesInv == ASSUME IInv, Next PROVE IdsLeft' /\ OwnPlaces' /\ EntryReady'
<1> USE LogStoreAssumption DEF IInv, Actors, Places
<1>1. ASSUME NEW s \in Sessions, Execute(s) PROVE IdsLeft' /\ OwnPlaces' /\ EntryReady'
  BY <1>1 DEF TypeOK, IdsLeft, OwnPlaces, EntryReady, Execute, Begin, Goto
<1>2. ASSUME NEW s \in Sessions, Load(s) PROVE IdsLeft' /\ OwnPlaces' /\ EntryReady'
  <2>1. IdsLeft' /\ OwnPlaces'
    BY <1>2 DEF TypeOK, IdsLeft, OwnPlaces, Load, GetName, Goto
  <2>2. s \in DOMAIN Loaded(s)
    BY DEF Loaded
  <2>3. EntryReady'
    BY <1>2, <2>2 DEF TypeOK, EntryReady, Load, GetName, Goto
  <2> QED BY <2>1, <2>3
<1>3. ASSUME NEW s \in Sessions, MakeRunner(s) PROVE IdsLeft' /\ OwnPlaces' /\ EntryReady'
  BY <1>3 DEF TypeOK, IdsLeft, OwnPlaces, EntryReady, MakeRunner, Goto
<1>4. CASE Cleanup
  BY <1>4 DEF TypeOK, IdsLeft, OwnPlaces, EntryReady, Cleanup, Begin, Goto
<1>4a. CASE UnlinkOne \/ Unlinked
  BY <1>4a DEF TypeOK, IdsLeft, OwnPlaces, EntryReady, UnlinkOne, Unlinked, Goto
<1>5. ASSUME NEW a \in Actors, Open(a) PROVE IdsLeft' /\ OwnPlaces' /\ EntryReady'
  BY <1>5 DEF TypeOK, IdsLeft, OwnPlaces, EntryReady, Open, Goto
<1>6. ASSUME NEW a \in Actors, Dumped(a) PROVE IdsLeft' /\ OwnPlaces' /\ EntryReady'
  BY <1>6 DEF TypeOK, IdsLeft, OwnPlaces, EntryReady, Dumped, Goto
<1>7. ASSUME NEW a \in Actors, Crash(a) PROVE IdsLeft' /\ OwnPlaces' /\ EntryReady'
  BY <1>7 DEF TypeOK, IdsLeft, OwnPlaces, EntryReady, Crash, Goto
<1>8. CASE Tick
  BY <1>8 DEF IdsLeft, OwnPlaces, EntryReady, Tick
<1> QED BY <1>1, <1>2, <1>3, <1>4, <1>4a, <1>5, <1>6, <1>7, <1>8 DEF Next, Register

\* At most one call, as long as none overlap, and a readable index around it.
LEMMA CallInv == ASSUME IInv, Next PROVE OneCall' /\ StillEmpty' /\ IndexReadable'
<1> USE LogStoreAssumption DEF IInv, Actors, Places
<1>0. pc \in [Actors -> Places]
  BY DEF TypeOK
<1>1. ASSUME NEW a \in Actors, NEW at \in Places, at # "dump", Begin(a, at), file' = file
      PROVE  OneCall' /\ StillEmpty' /\ IndexReadable'
  <2>1. OneCall'
    BY <1>0, <1>1 DEF Begin, Goto, OneCall, Busy
  <2>2. StillEmpty'
    BY <1>0, <1>1 DEF Begin, Goto, StillEmpty
  <2>3. IndexReadable'
    BY <1>0, <1>1 DEF Begin, Goto, IndexReadable
  <2> QED BY <2>1, <2>2, <2>3
<1>2. ASSUME NEW a \in Actors, NEW at \in Places, Busy(a), Goto(a, at), pc[a] # "dump",
             at # "dump", file' = file, overlapped' = overlapped
      PROVE  OneCall' /\ StillEmpty' /\ IndexReadable'
  <2>1. OneCall'
    BY <1>0, <1>2 DEF Goto, OneCall, Busy
  <2>2. StillEmpty'
    BY <1>0, <1>2 DEF Goto, StillEmpty
  <2>3. IndexReadable'
    BY <1>0, <1>2 DEF Goto, IndexReadable, Busy
  <2> QED BY <2>1, <2>2, <2>3
<1>3. ASSUME NEW s \in Sessions, Register(s) PROVE OneCall' /\ StillEmpty' /\ IndexReadable'
  <2>1. Execute(s) => Begin(s, "load") /\ file' = file
    BY DEF Execute, disk
  <2>2. Load(s) => /\ Busy(s) /\ pc[s] # "dump" /\ file' = file /\ overlapped' = overlapped
                   /\ Goto(s, "idle") \/ Goto(s, "open")
    BY DEF Load, disk, Busy
  <2>3. MakeRunner(s) => /\ Busy(s) /\ pc[s] # "dump" /\ file' = file /\ overlapped' = overlapped
                         /\ Goto(s, "idle") \/ Goto(s, "load")
    BY DEF MakeRunner, Busy
  <2> QED BY <1>1, <1>2, <1>3, <2>1, <2>2, <2>3 DEF Register
<1>4. CASE Cleanup
  <2>1. Begin(Cleaner, "unlink") /\ file' = file
    BY <1>4 DEF Cleanup, disk
  <2> QED BY <1>1, <2>1
<1>5. CASE UnlinkOne \/ Tick
  BY <1>5 DEF UnlinkOne, Tick, disk, OneCall, StillEmpty, Busy, IndexReadable
<1>6. CASE Unlinked
  <2>1. Busy(Cleaner) /\ pc[Cleaner] # "dump" /\ Goto(Cleaner, "open") /\ file' = file /\ overlapped' = overlapped
    BY <1>6 DEF Unlinked, disk, Busy
  <2> QED BY <1>2, <2>1
<1>7. ASSUME NEW a \in Actors, Open(a) PROVE OneCall' /\ StillEmpty' /\ IndexReadable'
  <2>1. OneCall'
    BY <1>0, <1>7 DEF Open, Goto, OneCall, Busy
  <2>2. pc'[a] = "dump" /\ file' = "empty"
    BY <1>0, <1>7 DEF Open, Goto
  <2> QED BY <2>1, <2>2 DEF StillEmpty, IndexReadable
<1>8. ASSUME NEW a \in Actors, Dumped(a) PROVE OneCall' /\ StillEmpty' /\ IndexReadable'
  <2>1. OneCall'
    BY <1>0, <1>8 DEF Dumped, Goto, OneCall, Busy
  <2>2. overlapped \/ (file' = "json" /\ ~\E b \in Actors : pc'[b] = "dump")
    <3>1. ASSUME ~overlapped PROVE file' = "json"
      BY <1>8, <3>1 DEF Dumped, Dump, StillEmpty
    <3>2. ASSUME ~overlapped, NEW b \in Actors PROVE pc'[b] # "dump"
      BY <1>0, <1>8, <3>2 DEF Dumped, Goto, OneCall, Busy
    <3> QED BY <3>1, <3>2
  <2>3. overlapped' = overlapped
    BY <1>8 DEF Dumped
  <2>4. file' \notin Broken \/ overlapped
    BY <2>2 DEF Broken
  <2> QED BY <2>1, <2>2, <2>3, <2>4 DEF StillEmpty, IndexReadable
<1>9. ASSUME NEW a \in Actors, Crash(a) PROVE OneCall' /\ StillEmpty' /\ IndexReadable'
  <2>1. OneCall'
    BY <1>0, <1>9 DEF Crash, Goto, OneCall, Busy
  <2>2. pc'[a] = "crashed"
    BY <1>0, <1>9 DEF Crash, Goto
  <2>3. StillEmpty'
    BY <1>0, <1>9 DEF Crash, Goto, StillEmpty, disk
  <2> QED BY <2>1, <2>2, <2>3 DEF IndexReadable
<1> QED BY <1>3, <1>4, <1>5, <1>6, <1>7, <1>8, <1>9 DEF Next

LEMMA NextInv == IInv /\ [Next]_vars => IInv'
<1> SUFFICES ASSUME IInv, [Next]_vars PROVE IInv'
  OBVIOUS
<1>1. CASE Next
  BY <1>1, TypeInv, PlacesInv, CallInv DEF IInv
<1>2. CASE UNCHANGED vars
  BY <1>2 DEF vars, disk, IInv, TypeOK, IdsLeft, OwnPlaces, EntryReady, OneCall, StillEmpty, Busy, IndexReadable
<1> QED BY <1>1, <1>2

-----------------------------------------------------------------------------
\* Types, the ids left for a plan, and calls that do not overlap.
THEOREM Invariant == Spec => []IInv
<1> QED BY InitInv, NextInv, PTL DEF Spec

\* Only a call that was killed, or two that overlap, leave an index behind that
\* cannot be read.
THEOREM Readable == Spec => []IndexReadable
<1>1. IInv => IndexReadable
  BY DEF IInv
<1> QED BY <1>1, Invariant, PTL

-----------------------------------------------------------------------------
(***************************************************************************)
(* What the index says of sessions, files and times, as long as no two     *)
(* calls overlap.                                                          *)
(***************************************************************************)

\* An entry of s in f is that of its last register: it has the last name, unless a
\* call of s that has taken another one is on its way, or was killed there.
Timely(f, s) == f[s].timestamp = lastAt[s]
Named(f, s) == f[s].list = <<made[s]>>
Covers(names) == \A l \in logs : l[1] \in names

IndexTells == file \notin Broken =>
    /\ Covers(DOMAIN index)
    /\ \A s \in DOMAIN index : /\ Timely(index, s)
                               /\ Named(index, s) \/ pc[s] \in {"open", "dump", "crashed"}
CopyTells == \A a \in Actors : pc[a] \in {"open", "dump"} =>
    /\ Covers(DOMAIN copy[a])
    /\ \A s \in DOMAIN copy[a] : /\ s = a \/ Timely(copy[a], s)
                                 /\ Named(copy[a], s) \/ pc[s] = "crashed"
SweepTells == pc[Cleaner] = "unlink" =>
    /\ Covers(DOMAIN copy[Cleaner] \cup doomed)
    /\ \A s \in DOMAIN copy[Cleaner] : /\ Timely(copy[Cleaner], s)
                                       /\ Named(copy[Cleaner], s) \/ pc[s] = "crashed"
    /\ \A s \in doomed : now - lastAt[s] > MaxAge
BackendTells == \A s \in Sessions : pc[s] = "backend" => file = "json" /\ s \in DOMAIN index
Tells == IndexTells /\ CopyTells /\ SweepTells /\ BackendTells

\* While one is in a call, nobody else is, and nobody else begins one.
LEMMA NobodyElse ==
  ASSUME IInv, ~overlapped, NEW a \in Actors, Busy(a)
  PROVE  \A b \in Actors : b # a => pc[b] \in {"idle", "crashed"}
BY DEF IInv, OneCall, Busy

LEMMA NobodyYet ==
  ASSUME IInv, NEW a \in Actors, NEW at, Begin(a, at), ~overlapped'
  PROVE  ~overlapped /\ \A b \in Actors : pc[b] \in {"idle", "crashed"}
BY DEF Begin, Busy

LEMMA TellsExecute ==
  ASSUME IInv, Tells, NEW s \in Sessions, Execute(s), ~overlapped' PROVE Tells'
<1>1. /\ pc \in [Actors -> Places] /\ s \in Actors /\ Sessions \subseteq Actors /\ Cleaner \in Actors
      /\ Cleaner \notin Sessions /\ IsIndex(index)
  BY LogStoreAssumption DEF IInv, TypeOK, Actors
<1>2. /\ pc' = [pc EXCEPT ![s] = "load"] /\ pc[s] = "idle"
      /\ \A b \in Actors : pc[b] \in {"idle", "crashed"}
      /\ UNCHANGED <<now, file, index, logs, copy, doomed, made, lastAt>>
  BY <1>1, NobodyYet DEF Execute, Begin, Goto, disk
<1>3. IndexTells'
  BY <1>1, <1>2 DEF Tells, IndexTells, Covers, Timely, Named, IsIndex
<1>4. CopyTells' /\ SweepTells' /\ BackendTells'
  BY <1>1, <1>2 DEF CopyTells, SweepTells, BackendTells
<1> QED BY <1>3, <1>4 DEF Tells

LEMMA TellsLoad ==
  ASSUME IInv, Tells, NEW s \in Sessions, Load(s), ~overlapped' PROVE Tells'
<1>1. /\ pc \in [Actors -> Places] /\ s \in Actors /\ Sessions \subseteq Actors /\ Cleaner \in Actors
      /\ Cleaner \notin Sessions /\ IsIndex(index) /\ made \in [Sessions -> 0..MaxIds]
      /\ DOMAIN copy = Actors
  BY LogStoreAssumption DEF IInv, TypeOK, Actors
<1>2. /\ pc[s] = "load" /\ ~overlapped /\ made' = [made EXCEPT ![s] = @ + 1]
      /\ UNCHANGED <<now, file, index, logs, doomed, lastAt>>
  BY DEF Load, GetName, disk
<1>3. \A b \in Actors : b # s => pc[b] \in {"idle", "crashed"}
  BY <1>1, <1>2, NobodyElse DEF Busy
<1>4. CASE file \in Broken
  <2>1. pc' = [pc EXCEPT ![s] = "idle"]
    BY <1>4 DEF Load, Goto
  <2>2. IndexTells'
    BY <1>2, <1>4 DEF IndexTells
  <2>3. CopyTells' /\ SweepTells' /\ BackendTells'
    BY <1>1, <1>3, <2>1 DEF CopyTells, SweepTells, BackendTells
  <2> QED BY <2>2, <2>3 DEF Tells
<1>5. CASE file \notin Broken
  <2>1. /\ pc' = [pc EXCEPT ![s] = "open"] /\ copy' = [copy EXCEPT ![s] = Loaded(s)]
    BY <1>5 DEF Load, Goto
  <2>2. /\ Covers(DOMAIN index)
        /\ \A x \in DOMAIN index : Timely(index, x) /\ (Named(index, x) \/ pc[x] = "crashed" \/ x = s)
    BY <1>1, <1>3, <1>5 DEF Tells, IndexTells, IsIndex
  <2>3. IndexTells'
    <3>1. Covers(DOMAIN index)'
      BY <1>2, <2>2 DEF Covers
    <3>2. ASSUME NEW x \in DOMAIN index
          PROVE  Timely(index, x)' /\ (Named(index, x)' \/ pc'[x] \in {"open", "dump", "crashed"})
      <4>1. Timely(index, x)'
        BY <1>2, <2>2 DEF Timely
      <4>2. x \in Sessions
        BY <1>1 DEF IsIndex
      <4>3. CASE x = s
        BY <1>1, <2>1, <4>1, <4>3
      <4>4. CASE x # s
        <5>1. made'[x] = made[x] /\ pc'[x] = pc[x]
          BY <1>1, <1>2, <2>1, <4>2, <4>4
        <5> QED BY <1>2, <2>2, <4>1, <4>4, <5>1 DEF Named
      <4> QED BY <4>3, <4>4
    <3> QED BY <1>2, <3>1, <3>2 DEF IndexTells
  <2>4. CopyTells'
    <3>1. \A a \in Actors : pc'[a] \in {"open", "dump"} => a = s
      BY <1>1, <1>3, <2>1
    <3>0. PICK f : f = Loaded(s)
      OBVIOUS
    <3>2. copy'[s] = f /\ DOMAIN f = DOMAIN index \cup {s} /\ f[s] = Entry(s)
          /\ \A x \in DOMAIN index : x # s => f[x] = index[x]
      BY <1>1, <2>1, <3>0 DEF Loaded
    <3>3. Entry(s).list = <<made'[s]>>
      BY <1>1, <1>2 DEF Entry
    <3>4. Covers(DOMAIN f)'
      BY <1>2, <2>2, <3>2 DEF Covers
    <3>5. ASSUME NEW x \in DOMAIN f
          PROVE  (x = s \/ Timely(f, x)') /\ (Named(f, x)' \/ pc'[x] = "crashed")
      <4>1. CASE x = s
        BY <3>2, <3>3, <4>1 DEF Named
      <4>2. CASE x # s
        <5>1. x \in DOMAIN index /\ f[x] = index[x] /\ x \in Sessions
          BY <1>1, <3>2, <3>5, <4>2 DEF IsIndex
        <5>2. made'[x] = made[x] /\ pc'[x] = pc[x]
          BY <1>1, <1>2, <2>1, <4>2, <5>1
        <5> QED BY <1>2, <2>2, <4>2, <5>1, <5>2 DEF Named, Timely
      <4> QED BY <4>1, <4>2
    <3> QED BY <3>1, <3>2, <3>4, <3>5 DEF CopyTells, Covers, Timely, Named
  <2>5. SweepTells' /\ BackendTells'
    BY <1>1, <1>3, <2>1 DEF SweepTells, BackendTells
  <2> QED BY <2>3, <2>4, <2>5 DEF Tells
<1> QED BY <1>4, <1>5

LEMMA TellsTypes ==
  ASSUME IInv
  PROVE  /\ pc \in [Actors -> Places] /\ Sessions \subseteq Actors /\ Cleaner \in Actors
         /\ Cleaner \notin Sessions /\ IsIndex(index) /\ made \in [Sessions -> 0..MaxIds]
         /\ DOMAIN copy = Actors /\ (\A a \in Actors : IsIndex(copy[a]))
         /\ lastAt \in [Sessions -> Nat] /\ now \in Nat /\ MaxAge \in Nat
BY LogStoreAssumption DEF IInv, TypeOK, Actors, MaxAge

LEMMA TellsOpen ==
  ASSUME IInv, Tells, NEW a \in Actors, Open(a), ~overlapped' PROVE Tells'
<1>1. /\ pc[a] = "open" /\ ~overlapped /\ file' = "empty" /\ pc' = [pc EXCEPT ![a] = "dump"]
      /\ UNCHANGED <<now, logs, copy, doomed, made, lastAt>>
  BY DEF Open, Goto
<1>2. \A b \in Actors : b # a => pc[b] \in {"idle", "crashed"}
  BY <1>1, NobodyElse DEF Busy
<1>3. IndexTells'
  BY <1>1 DEF IndexTells, Broken
<1>4. CopyTells'
  <2> SUFFICES ASSUME NEW b \in Actors, pc'[b] \in {"open", "dump"}
               PROVE  /\ Covers(DOMAIN copy[b])
                      /\ \A s \in DOMAIN copy[b] : /\ s = b \/ Timely(copy[b], s)
                                                   /\ Named(copy[b], s) \/ pc'[s] = "crashed"
    BY <1>1 DEF CopyTells, Covers, Timely, Named
  <2>1. b = a
    BY <1>1, <1>2, TellsTypes
  <2>2. /\ Covers(DOMAIN copy[a])
        /\ \A s \in DOMAIN copy[a] : /\ s = a \/ Timely(copy[a], s)
                                     /\ Named(copy[a], s) \/ pc[s] = "crashed"
    BY <1>1 DEF Tells, CopyTells
  <2>3. \A s \in DOMAIN copy[a] : pc[s] = "crashed" => pc'[s] = "crashed"
    BY <1>1, TellsTypes DEF IsIndex
  <2> QED BY <2>1, <2>2, <2>3
<1>5. SweepTells' /\ BackendTells'
  BY <1>1, <1>2, TellsTypes DEF SweepTells, BackendTells
<1> QED BY <1>3, <1>4, <1>5 DEF Tells

LEMMA TellsDumped ==
  ASSUME IInv, Tells, NEW a \in Actors, Dumped(a), ~overlapped' PROVE Tells'
<1>1. /\ pc[a] = "dump" /\ ~overlapped /\ Dump(a)
      /\ UNCHANGED <<now, logs, doomed, made>>
  BY DEF Dumped
<1>2. \A b \in Actors : b # a => pc[b] \in {"idle", "crashed"}
  BY <1>1, NobodyElse DEF Busy
<1>3. file' = "json" /\ index' = copy[a]
  BY <1>1 DEF Dump, IInv, StillEmpty
<1>4. /\ pc' = [pc EXCEPT ![a] = IF a = Cleaner THEN "idle" ELSE "backend"]
      /\ IF a = Cleaner THEN lastAt' = lastAt
                        ELSE lastAt' = [lastAt EXCEPT ![a] = copy[a][a].timestamp]
  BY DEF Dumped, Goto
<1>5. /\ Covers(DOMAIN copy[a])
      /\ \A s \in DOMAIN copy[a] : /\ s = a \/ Timely(copy[a], s)
                                   /\ Named(copy[a], s) \/ pc[s] = "crashed"
  BY <1>1 DEF Tells, CopyTells
<1>6. DOMAIN copy[a] \subseteq Sessions /\ \A s \in Sessions : s \in Actors
  BY TellsTypes DEF IsIndex
<1>7. ASSUME NEW s \in DOMAIN copy[a]
      PROVE  copy[a][s].timestamp = lastAt'[s] /\ (Named(copy[a], s) \/ pc'[s] = "crashed")
  <2>1. CASE s = a
    <3>1. a # Cleaner /\ a \in Sessions
      BY <1>6, <1>7, <2>1, TellsTypes
    <3> QED BY <1>1, <1>4, <1>5, <2>1, <3>1, TellsTypes
  <2>2. CASE s # a
    <3>1. lastAt'[s] = lastAt[s] /\ pc'[s] = pc[s]
      BY <1>4, <1>6, <1>7, <2>2, TellsTypes
    <3> QED BY <1>5, <1>7, <2>2, <3>1 DEF Timely
  <2> QED BY <2>1, <2>2
<1>8. IndexTells'
  <2>1. Covers(DOMAIN index)'
    BY <1>1, <1>3, <1>5 DEF Covers
  <2>2. \A s \in DOMAIN index' : Timely(index, s)' /\ (Named(index, s)' \/ pc'[s] = "crashed")
    BY <1>1, <1>3, <1>7 DEF Timely, Named
  <2> QED BY <2>1, <2>2 DEF IndexTells
<1>9. CopyTells' /\ SweepTells'
  BY <1>2, <1>4, TellsTypes DEF CopyTells, SweepTells
<1>10. BackendTells'
  <2> SUFFICES ASSUME NEW s \in Sessions, pc'[s] = "backend" PROVE s \in DOMAIN index'
    BY <1>3 DEF BackendTells
  <2>1. s = a
    BY <1>2, <1>4, TellsTypes
  <2>2. a \in DOMAIN copy[a]
    BY <1>1, <2>1 DEF IInv, EntryReady
  <2> QED BY <1>3, <2>1, <2>2
<1> QED BY <1>8, <1>9, <1>10 DEF Tells

LEMMA TellsMakeRunner ==
  ASSUME IInv, Tells, NEW s \in Sessions, MakeRunner(s), ~overlapped' PROVE Tells'
<1>1. /\ pc[s] = "backend" /\ ~overlapped /\ logs' \subseteq logs \cup {<<s, made[s]>>}
      /\ pc' = [pc EXCEPT ![s] = IF todo[s] = 1 THEN "idle" ELSE "load"]
      /\ UNCHANGED <<now, file, index, copy, doomed, made, lastAt>>
  BY DEF MakeRunner, Goto
<1>2. \A b \in Actors : b # s => pc[b] \in {"idle", "crashed"}
  BY <1>1, NobodyElse, TellsTypes DEF Busy
<1>3. file = "json" /\ s \in DOMAIN index
  BY <1>1 DEF Tells, BackendTells
<1>4. /\ Covers(DOMAIN index)
      /\ \A x \in DOMAIN index : /\ Timely(index, x)
                                 /\ Named(index, x) \/ pc[x] \in {"open", "dump", "crashed"}
  BY <1>3 DEF Tells, IndexTells, Broken
<1>5. IndexTells'
  <2>1. Covers(DOMAIN index)'
    BY <1>1, <1>3, <1>4 DEF Covers
  <2>2. \A x \in DOMAIN index : pc[x] \in {"open", "dump", "crashed"} => pc'[x] = pc[x]
    BY <1>1, TellsTypes DEF IsIndex
  <2> QED BY <1>1, <1>4, <2>1, <2>2 DEF IndexTells, Timely, Named
<1>6. CopyTells' /\ SweepTells' /\ BackendTells'
  BY <1>1, <1>2, TellsTypes DEF CopyTells, SweepTells, BackendTells
<1> QED BY <1>5, <1>6 DEF Tells

LEMMA TellsCleanup ==
  ASSUME IInv, Tells, Cleanup, ~overlapped' PROVE Tells'
<1> DEFINE live == {s \in DOMAIN index : ~Expired(s)}
<1>1. /\ file = "json" /\ Begin(Cleaner, "unlink")
      /\ doomed' = {s \in DOMAIN index : Expired(s)}
      /\ copy' = [copy EXCEPT ![Cleaner] = Restrict(index, live)]
      /\ UNCHANGED <<now, file, index, logs, made, lastAt>>
  BY DEF Cleanup, disk
<1>2. /\ pc' = [pc EXCEPT ![Cleaner] = "unlink"]
      /\ \A b \in Actors : pc[b] \in {"idle", "crashed"}
  BY <1>1, NobodyYet, TellsTypes DEF Begin, Goto
<1>3. /\ Covers(DOMAIN index)
      /\ \A x \in DOMAIN index : Timely(index, x) /\ (Named(index, x) \/ pc[x] = "crashed")
  <2>1. DOMAIN index \subseteq Actors
    BY TellsTypes DEF IsIndex
  <2> QED BY <1>1, <1>2, <2>1 DEF Tells, IndexTells, Broken
<1>4. \A x \in DOMAIN index : pc'[x] = pc[x] /\ x \in Sessions
  BY <1>2, TellsTypes DEF IsIndex
<1>5. IndexTells'
  BY <1>1, <1>3, <1>4 DEF IndexTells, Covers, Timely, Named
<1>6. SweepTells'
  <2>1. PICK f : f = Restrict(index, live)
    OBVIOUS
  <2>2. copy'[Cleaner] = f
    BY <1>1, <2>1, TellsTypes
  <2>3. DOMAIN f = live /\ \A x \in live : f[x] = index[x]
    BY <2>1 DEF Restrict
  <2>4. DOMAIN f \cup doomed' = DOMAIN index /\ live \subseteq DOMAIN index
    BY <1>1, <2>3
  <2>5. Covers(DOMAIN f \cup doomed)'
    BY <1>1, <1>3, <2>4 DEF Covers
  <2>6. \A x \in doomed' : now' - lastAt'[x] > MaxAge
    BY <1>1, <1>3 DEF Timely, Expired
  <2>7. \A x \in DOMAIN f : Timely(f, x)' /\ (Named(f, x)' \/ pc'[x] = "crashed")
    BY <1>1, <1>3, <1>4, <2>3, <2>4 DEF Timely, Named
  <2> QED BY <2>2, <2>5, <2>6, <2>7 DEF SweepTells, Covers, Timely, Named
<1>7. CopyTells' /\ BackendTells'
  BY <1>2, TellsTypes DEF CopyTells, BackendTells
<1> QED BY <1>5, <1>6, <1>7 DEF Tells

LEMMA TellsUnlink ==
  ASSUME IInv, Tells, UnlinkOne \/ Unlinked, ~overlapped' PROVE Tells'
<1>1. pc[Cleaner] = "unlink" /\ ~overlapped
      /\ UNCHANGED <<now, file, index, copy, made, lastAt>>
  BY DEF UnlinkOne, Unlinked, disk
<1>2. \A b \in Actors : b # Cleaner => pc[b] \in {"idle", "crashed"}
  BY <1>1, NobodyElse, TellsTypes DEF Busy
<1>3. /\ Covers(DOMAIN copy[Cleaner] \cup doomed)
      /\ \A s \in DOMAIN copy[Cleaner] : /\ Timely(copy[Cleaner], s)
                                         /\ Named(copy[Cleaner], s) \/ pc[s] = "crashed"
      /\ \A s \in doomed : now - lastAt[s] > MaxAge
  BY <1>1 DEF Tells, SweepTells
<1>4. CASE UnlinkOne
  <2>1. PICK s \in doomed : logs' = {l \in logs : l[1] # s} /\ doomed' = doomed \ {s}
    BY <1>4 DEF UnlinkOne, Unlink
  <2>2. pc' = pc
    BY <1>4 DEF UnlinkOne
  <2>3. SweepTells'
    BY <1>1, <1>3, <2>1, <2>2 DEF SweepTells, Covers, Timely, Named
  <2>4. IndexTells'
    BY <1>1, <2>1, <2>2 DEF Tells, IndexTells, Covers, Timely, Named
  <2>5. CopyTells' /\ BackendTells'
    BY <1>1, <1>2, <2>2, TellsTypes DEF CopyTells, BackendTells
  <2> QED BY <2>3, <2>4, <2>5 DEF Tells
<1>5. CASE Unlinked
  <2>1. doomed = {} /\ logs' = logs /\ pc' = [pc EXCEPT ![Cleaner] = "open"]
    BY <1>5 DEF Unlinked, Goto, disk
  <2>2. \A x \in Sessions : pc'[x] = pc[x]
    BY <2>1, TellsTypes
  <2>3. DOMAIN copy[Cleaner] \subseteq Sessions /\ DOMAIN index \subseteq Sessions
    BY TellsTypes DEF IsIndex
  <2>4. IndexTells'
    BY <1>1, <2>1, <2>2, <2>3 DEF Tells, IndexTells, Covers, Timely, Named
  <2>5. CopyTells'
    <3>1. \A b \in Actors : pc'[b] \in {"open", "dump"} => b = Cleaner
      BY <1>2, <2>1, TellsTypes
    <3> QED BY <1>1, <1>3, <2>1, <2>2, <2>3, <3>1 DEF CopyTells, Covers, Timely, Named
  <2>6. SweepTells' /\ BackendTells'
    BY <1>2, <2>1, <2>2, TellsTypes DEF SweepTells, BackendTells
  <2> QED BY <2>4, <2>5, <2>6 DEF Tells
<1> QED BY <1>4, <1>5

LEMMA TellsCrash ==
  ASSUME IInv, Tells, NEW a \in Actors, Crash(a), ~overlapped' PROVE Tells'
<1>1. /\ Busy(a) /\ ~overlapped /\ pc' = [pc EXCEPT ![a] = "crashed"]
      /\ UNCHANGED <<now, file, index, logs, doomed, made, lastAt>>
  BY DEF Crash, Goto, disk
<1>2. \A b \in Actors : b # a => pc[b] \in {"idle", "crashed"}
  BY <1>1, NobodyElse
<1>3. \A b \in Actors : pc'[b] \in {"idle", "crashed"}
  BY <1>1, <1>2, TellsTypes
<1>4. IndexTells'
  <2>1. \A x \in DOMAIN index : pc'[x] = pc[x] \/ pc'[x] = "crashed"
    BY <1>1, TellsTypes DEF IsIndex
  <2> QED BY <1>1, <2>1 DEF Tells, IndexTells, Covers, Timely, Named
<1>5. CopyTells' /\ SweepTells' /\ BackendTells'
  BY <1>3, TellsTypes DEF CopyTells, SweepTells, BackendTells
<1> QED BY <1>4, <1>5 DEF Tells

LEMMA TellsTick ==
  ASSUME IInv, Tells, Tick PROVE Tells'
<1>1. /\ UNCHANGED <<file, index, logs, pc, copy, doomed, made, lastAt>> /\ now' = now + MaxAge
  BY DEF Tick, disk
<1>2. IndexTells' /\ CopyTells' /\ BackendTells'
  BY <1>1 DEF Tells, IndexTells, CopyTells, BackendTells, Covers, Timely, Named
<1>3. SweepTells'
  <2>1. ASSUME NEW s \in doomed, now - lastAt[s] > MaxAge PROVE now' - lastAt[s] > MaxAge
    <3>1. s \in Sessions
      BY DEF IInv, TypeOK
    <3> QED BY <1>1, <2>1, <3>1, TellsTypes
  <2> QED BY <1>1, <2>1 DEF Tells, SweepTells, Covers, Timely, Named
<1> QED BY <1>2, <1>3 DEF Tells

LEMMA TellsNext ==
  ASSUME IInv, ~overlapped => Tells, [Next]_vars PROVE (~overlapped => Tells)'
<1>1. SUFFICES ASSUME ~overlapped' PROVE Tells'
  OBVIOUS
<1>2. CASE UNCHANGED vars
  BY <1>1, <1>2 DEF vars, disk, Tells, IndexTells, CopyTells, SweepTells, BackendTells, Covers,
                    Timely, Named
<1>3. CASE Next
  <2>1. ~overlapped
    BY <1>1, <1>3 DEF Next, Register, Execute, Load, MakeRunner, Cleanup, UnlinkOne, Unlinked,
                      Open, Dumped, Crash, Tick, Begin
  <2> QED BY <1>1, <1>3, <2>1, TellsExecute, TellsLoad, TellsMakeRunner, TellsCleanup,
             TellsUnlink, TellsOpen, TellsDumped, TellsCrash, TellsTick DEF Next, Register
<1> QED BY <1>2, <1>3

LEMMA TellsInit == Init => Tells
<1> SUFFICES ASSUME Init PROVE Tells
  OBVIOUS
<1>1. \A a \in Actors : pc[a] = "idle"
  BY DEF Init
<1>2. DOMAIN index = {} /\ logs = {}
  BY DEF Init, NoSessions
<1>3. IndexTells
  BY <1>2 DEF IndexTells, Covers
<1>4. CopyTells /\ SweepTells /\ BackendTells
  BY <1>1 DEF CopyTells, SweepTells, BackendTells, Actors
<1> QED BY <1>3, <1>4 DEF Tells

LEMMA Telling == Spec => [](IInv /\ (~overlapped => Tells))
<1>1. Init => IInv /\ (~overlapped => Tells)
  BY InitInv, TellsInit
<1>2. IInv /\ (~overlapped => Tells) /\ [Next]_vars => (IInv /\ (~overlapped => Tells))'
  BY NextInv, TellsNext
<1> QED BY <1>1, <1>2, PTL DEF Spec

\* Until two calls overlap, every log file is one of a session in the index, so
\* that a later cleanup finds it, whatever has been killed.
THEOREM Reachable == Spec => []LogsReachable
<1>1. IInv /\ (~overlapped => Tells) => LogsReachable
  BY DEF Tells, IndexTells, Broken, Covers, LogsReachable
<1> QED BY <1>1, Telling, PTL

\* Until two calls overlap, the index has the last name of each session when all
\* calls have come to their end.
THEOREM Listed == Spec => []LastIsListed
<1>1. IInv /\ (~overlapped => Tells) => LastIsListed
  <2> SUFFICES ASSUME IInv, Tells, file = "json", \A a \in Actors : pc[a] = "idle",
                      NEW s \in DOMAIN index
               PROVE  index[s].list = <<made[s]>>
    BY DEF LastIsListed
  <2>1. s \in Actors
    BY TellsTypes DEF IsIndex
  <2> QED BY <2>1 DEF Tells, IndexTells, Broken, Named
<1> QED BY <1>1, Telling, PTL

\* Until two calls overlap, cleanup unlinks files only of sessions that have not
\* registered a task for longer than max_age.
THEOREM Deleted == Spec => OnlyOldDeleted
<1>1. IInv /\ (~overlapped => Tells) /\ [Next]_vars =>
        [~overlapped => \A l \in logs \ logs' : now - lastAt[l[1]] > MaxAge]_vars
  <2> SUFFICES ASSUME IInv, Tells, Next, NEW l \in logs \ logs'
               PROVE  now - lastAt[l[1]] > MaxAge
    OBVIOUS
  <2>1. UnlinkOne
    BY DEF Next, Register, Execute, Load, MakeRunner, Cleanup, UnlinkOne, Unlinked, Open, Dumped,
           Crash, Tick, disk
  <2>2. pc[Cleaner] = "unlink" /\ l[1] \in doomed
    BY <2>1 DEF UnlinkOne, Unlink
  <2> QED BY <2>2 DEF Tells, SweepTells
<1> QED BY <1>1, Telling, PTL DEF Spec, OnlyOldDeleted

=============================================================================
