---------------------------- MODULE OrderProofs ----------------------------
(***************************************************************************)
(* Proofs about OrderSearch and OrderBooks.  For every number of orders    *)
(* and all periods ordered as those of the code are: no order of a covered *)
(* day is missing, and what is stored is as recent as the rules of         *)
(* rechecking say.  For every number of orders and lines: the units of a   *)
(* line add up, its adjustments and the daily sales agree with it, and it  *)
(* never goes back to an older state.                                      *)
(***************************************************************************)
EXTENDS OrderBooks, OrderSearch, FiniteSetTheorems, TLAPS

-----------------------------------------------------------------------------
(* The windows of a search cover its days. *)

LEMMA Multiples ==
  ASSUME NEW M \in Nat \ {0}, NEW q \in Int, NEW k \in Int, NEW r \in 0..(M - 1), M * k = M * q + r
  PROVE  r = 0
<1>1. CASE k - q >= 1
  <2>1. M * (k - q) >= M
    BY <1>1
  <2>2. QED
    BY <2>1
<1>2. CASE k - q <= -1
  <2>1. M * (q - k) >= M
    BY <1>2
  <2>2. QED
    BY <2>1
<1>3. CASE k = q
  BY <1>3
<1>4. QED
  BY <1>1, <1>2, <1>3

LEMMA WholePart ==
  ASSUME NEW M \in Nat \ {0}, NEW x \in Nat
  PROVE  x % M \in 0..(M - 1) /\ x - (x % M) \in 0..x /\ (x - (x % M)) % M = 0
<1>1. x % M \in 0..(M - 1) /\ x = M * (x \div M) + (x % M) /\ x \div M \in Int
  <2>1. x % M \in 0..(M - 1)
    OBVIOUS
  <2>2. x \div M \in Int
    OBVIOUS
  <2>3. x = M * (x \div M) + (x % M)
    OBVIOUS
  <2>4. QED
    BY <2>1, <2>2, <2>3
<1>2. x % M <= x
  <2>1. CASE x \div M <= 0 - 1
    <3>1. M * (0 - (x \div M)) >= M
      BY <1>1, <2>1
    <3>2. QED
      BY <1>1, <3>1
  <2>2. CASE x \div M >= 0
    <3>1. M * (x \div M) >= 0
      BY <1>1, <2>2
    <3>2. QED
      BY <1>1, <3>1
  <2>3. QED
    BY <1>1, <2>1, <2>2
<1> DEFINE y == x - (x % M)
<1>3. y \in 0..x /\ y = M * (x \div M)
  BY <1>1, <1>2
<1>4. y % M \in 0..(M - 1) /\ y = M * (y \div M) + (y % M) /\ y \div M \in Int
  BY <1>3
<1>5. y % M = 0
  BY <1>1, <1>3, <1>4, Multiples
<1>6. QED
  BY <1>1, <1>3, <1>5

LEMMA WindowsCover ==
  ASSUME SearchConstants, NEW first \in Int, NEW last \in Int, first < last, NEW d \in first..last
  PROVE  \E b \in Starts(first, last) : d \in Window(b, last)
<1>1. MaxRange \in Nat \ {0}
  BY DEF SearchConstants
<1>2. PICK x \in Nat : x = (IF d < last THEN d ELSE last - 1) - first
  OBVIOUS
<1>3. x % MaxRange \in 0..(MaxRange - 1) /\ x - (x % MaxRange) \in 0..x
      /\ (x - (x % MaxRange)) % MaxRange = 0
  BY <1>1, WholePart
<1>4. PICK y \in 0..x : y = x - (x % MaxRange) /\ y % MaxRange = 0
  BY <1>3
<1>5. PICK b \in Int : b = first + y
  OBVIOUS
<1>6. b \in first..(last - 1) /\ b - first = y
  BY <1>2, <1>4, <1>5
<1>7. b \in Starts(first, last)
  BY <1>4, <1>6 DEF Starts
<1>8. b <= d /\ d <= b + MaxRange
  BY <1>1, <1>2, <1>3, <1>4, <1>5
<1>9. d \in Window(b, last)
  BY <1>1, <1>5, <1>8 DEF Window
<1>10. QED
  BY <1>7, <1>9

(* What a search finds: what was placed in its days, and nothing else.      *)
LEMMA FoundOrders ==
  ASSUME SearchConstants, NEW first \in Int, NEW last \in Int, first < last, NEW o \in OrderNumbers,
         Placed(o) => remote[o].placed \in Int
  PROVE  o \in Found(first, last) <=> Placed(o) /\ remote[o].placed \in first..last
<1>1. ASSUME Placed(o), remote[o].placed \in first..last
      PROVE  o \in Found(first, last)
  BY <1>1, WindowsCover DEF Found
<1>2. ASSUME o \in Found(first, last)
      PROVE  Placed(o) /\ remote[o].placed \in first..last
  <2>1. PICK b \in Starts(first, last) : Placed(o) /\ remote[o].placed \in Window(b, last)
    BY <1>2 DEF Found
  <2>2. b \in first..(last - 1) /\ MaxRange \in Nat
    BY DEF Starts, SearchConstants
  <2>3. QED
    BY <2>1, <2>2 DEF Window
<1>3. QED
  BY <1>1, <1>2

-----------------------------------------------------------------------------
(* The types. *)

PlacedDays == ((0 - InitialDays)..MaxDay) \cup {Never}
RemoteRows == [placed : PlacedDays, version : Nat, done : BOOLEAN, adjusted : BOOLEAN]
LocalRows == [there : BOOLEAN, version : Nat, done : BOOLEAN, adjusted : BOOLEAN, synced : Nat]
Numbers == [OrderNumbers -> Nat]
Details1 == [order : OrderNumbers, version : Nat, done : BOOLEAN, adjusted : BOOLEAN]
SyncRows == [pc : {"idle", "search", "details", "store"}, full : BOOLEAN, day : Nat,
             want : SUBSET OrderNumbers, got : SUBSET Details1, known : Numbers, dawn : Numbers]
StateRows == [complete : BOOLEAN, ok : Nat, first : Int, known : Numbers, begun : Numbers,
              dawn : Numbers]

TypedInv ==
  /\ today \in 0..MaxDay
  /\ remote \in [OrderNumbers -> RemoteRows] /\ local \in [OrderNumbers -> LocalRows]
  /\ sync \in SyncRows /\ state \in StateRows

Started == sync.pc # "idle"
Searched == sync.pc \in {"details", "store"}

(* A sync begins after the last one that succeeded and, as no outage is     *)
(* longer than the recent days, its window reaches back to that one.        *)
ClockInv ==
  /\ state.ok <= today
  /\ state.complete => today <= state.ok + RecentDays
  /\ Started => /\ state.ok <= sync.day /\ sync.day <= today /\ today <= sync.day + RecentDays
                /\ ~sync.full => state.complete

(* Orders are placed in the past; the stored ones were found by a sync.     *)
StoredInv ==
  \A o \in OrderNumbers :
    /\ Placed(o) => remote[o].placed <= today
    /\ local[o].there => /\ Placed(o) /\ remote[o].placed <= state.ok
                         /\ local[o].version <= remote[o].version
                         /\ local[o].synced <= state.ok /\ state.complete

(* Versions grow: what Rakuten had at dawn, when the sync began, and now.   *)
VersionInv ==
  \A o \in OrderNumbers :
    /\ state.dawn[o] <= remote[o].version
    /\ local[o].there /\ local[o].synced >= today => state.dawn[o] <= local[o].version
    /\ Started => /\ sync.dawn[o] <= sync.known[o] /\ sync.known[o] <= remote[o].version
                  /\ sync.day = today => state.dawn[o] <= sync.known[o]
                  /\ local[o].there /\ local[o].synced >= sync.day =>
                       sync.dawn[o] <= local[o].version

(* What a search has found is what its days have, and what is to be looked  *)
(* at again.                                                                *)
WantInv ==
  Searched =>
    /\ \A o \in sync.want : Placed(o) /\ remote[o].placed <= sync.day
    /\ \A o \in OrderNumbers :
         /\ Placed(o) /\ remote[o].placed \in (sync.day - WindowDays)..(sync.day - 1) => o \in sync.want
         /\ local[o].there /\ remote[o].placed \in (sync.day - WindowDays)..sync.day => o \in sync.want
         /\ ~sync.full /\ o \in Recheck(sync.day) => o \in sync.want

GotInv ==
  sync.pc = "store" =>
    /\ \A o \in sync.want : \E r \in sync.got : r.order = o
    /\ \A r \in sync.got : /\ sync.known[r.order] <= r.version
                           /\ r.version <= remote[r.order].version

SearchInv ==
  TypedInv /\ ClockInv /\ StoredInv /\ VersionInv /\ WantInv /\ GotInv /\ NothingMissed /\ NothingStale

LEMMA PlacedDay ==
  ASSUME SearchConstants, TypedInv, NEW o \in OrderNumbers, Placed(o)
  PROVE  remote[o].placed \in (0 - InitialDays)..MaxDay /\ remote[o].placed \in Int
  BY DEF SearchConstants, TypedInv, RemoteRows, PlacedDays, Placed

LEMMA DaysOfSync ==
  ASSUME SearchConstants, TypedInv
  PROVE  /\ WindowDays \in Nat \ {0} /\ RecentDays <= WindowDays /\ WindowDays <= InitialDays
         /\ RecentDays \in Nat /\ AdjustedDays \in Nat /\ CompletedDays \in Nat /\ InitialDays \in Nat
         /\ RecentDays <= AdjustedDays /\ AdjustedDays <= CompletedDays /\ CompletedDays <= InitialDays
         /\ sync.full => WindowDays = InitialDays
         /\ ~sync.full => WindowDays = RecentDays
  BY DEF SearchConstants, TypedInv, SyncRows, WindowDays

LEMMA VersionsTyped ==
  ASSUME TypedInv
  PROVE  RemoteVersions \in Numbers /\ \A o \in OrderNumbers : RemoteVersions[o] = remote[o].version
  BY DEF TypedInv, RemoteRows, RemoteVersions, Numbers

LEMMA InitSearch ==
  ASSUME SearchConstants
  PROVE  SearchInit => SearchInv
<1> SUFFICES ASSUME SearchInit PROVE SearchInv
  OBVIOUS
<1>1. Nothing \in Numbers /\ \A o \in OrderNumbers : Nothing[o] = 0
  BY DEF Nothing, Numbers
<1>2. /\ sync = [pc |-> "idle", full |-> FALSE, day |-> 0, want |-> {}, got |-> {},
                 known |-> Nothing, dawn |-> Nothing]
      /\ state = [complete |-> FALSE, ok |-> 0, first |-> 0, known |-> Nothing, begun |-> Nothing,
                  dawn |-> Nothing]
  BY DEF SearchInit, AtRest
<1>3. today = 0 /\ 0 \in 0..MaxDay
  BY DEF SearchInit, SearchConstants
<1>4. ASSUME NEW d \in {Never, 0 - InitialDays, 0}
      PROVE  [placed |-> d, version |-> 0, done |-> FALSE, adjusted |-> FALSE] \in RemoteRows
  <2>1. d \in PlacedDays
    BY DEF SearchConstants, PlacedDays
  <2>2. QED
    BY <2>1 DEF RemoteRows
<1>5. remote \in [OrderNumbers -> RemoteRows]
  BY <1>4 DEF SearchInit
<1>6. \A o \in OrderNumbers : /\ remote[o].placed \in {Never, 0 - InitialDays, 0} /\ remote[o].version = 0
                              /\ local[o].there = FALSE
  BY DEF SearchInit, NotStored
<1>7. local \in [OrderNumbers -> LocalRows]
  BY DEF SearchInit, NotStored, LocalRows
<1>8. sync \in SyncRows
  BY <1>1, <1>2 DEF SyncRows
<1>9. state \in StateRows
  BY <1>1, <1>2 DEF StateRows
<1>10. TypedInv
  BY <1>3, <1>5, <1>7, <1>8, <1>9 DEF TypedInv
<1>11. ClockInv /\ WantInv /\ GotInv
  BY <1>2, <1>3 DEF ClockInv, WantInv, GotInv, Started, Searched
<1>12. StoredInv
  BY <1>3, <1>6 DEF StoredInv, Placed, SearchConstants
<1>13. VersionInv
  BY <1>1, <1>2, <1>6 DEF VersionInv, Started
<1>14. NothingMissed /\ NothingStale
  BY <1>2 DEF NothingMissed, NothingStale
<1>15. QED
  BY <1>10, <1>11, <1>12, <1>13, <1>14 DEF SearchInv

-----------------------------------------------------------------------------
(* Rakuten and the clock. *)

LEMMA PlaceStep ==
  ASSUME SearchConstants, SearchInv, NEW o \in OrderNumbers, Place(o)
  PROVE  SearchInv'
<1> USE DEF SearchInv
<1>1. UNCHANGED <<today, local, sync, state>> /\ remote[o].placed = Never
  BY DEF Place, Placed
<1>2. PICK r : r = [remote[o] EXCEPT !.placed = today]
  OBVIOUS
<1>3. today \in PlacedDays /\ today \in Nat
  BY DEF TypedInv, SearchConstants, PlacedDays
<1>4. r \in RemoteRows /\ r.placed = today /\ r.version = remote[o].version
  BY <1>2, <1>3 DEF TypedInv, RemoteRows
<1>5. remote' = [remote EXCEPT ![o] = r]
  BY <1>2 DEF Place, TypedInv
<1>6. /\ remote' \in [OrderNumbers -> RemoteRows]
      /\ remote'[o].placed = today /\ remote'[o].version = remote[o].version
      /\ \A x \in OrderNumbers \ {o} : remote'[x] = remote[x]
  BY <1>4, <1>5 DEF TypedInv
<1> HIDE DEF SearchInv
<1>7. TypedInv /\ ClockInv /\ StoredInv /\ VersionInv /\ WantInv /\ GotInv /\ NothingMissed /\ NothingStale
  BY DEF SearchInv
<1>8. TypedInv' /\ ClockInv'
  BY <1>1, <1>6, <1>7 DEF TypedInv, ClockInv, Started
<1>9. ~local[o].there
  BY <1>1, <1>7 DEF StoredInv, Placed
<1>10. StoredInv'
  BY <1>1, <1>3, <1>6, <1>7, <1>9 DEF StoredInv, Placed
<1>11. \A x \in OrderNumbers : remote'[x].version = remote[x].version
  BY <1>6
<1>12. VersionInv'
  BY <1>1, <1>7, <1>11 DEF VersionInv, Started
<1>13. WantInv'
  <2>1. SUFFICES ASSUME Searched PROVE WantInv'
    BY <1>1 DEF WantInv, Searched
  <2>2. sync.day \in Nat /\ sync.day <= today /\ WindowDays \in Nat /\ today \in Nat
    BY <2>1, <1>3, <1>7, DaysOfSync DEF ClockInv, Started, Searched, TypedInv, SyncRows
  <2>3. o \notin sync.want
    BY <2>1, <1>1, <1>7 DEF WantInv, Placed
  <2>4. WindowDays' = WindowDays /\ Recheck(sync.day)' = Recheck(sync.day)
    <3>1. \A x \in OrderNumbers : local[x].there => remote'[x].placed = remote[x].placed
      BY <1>6, <1>9
    <3>2. QED
      BY <1>1, <3>1 DEF WindowDays, Recheck, RecheckDue
  <2>5. \A x \in sync.want : Placed(x)' /\ remote'[x].placed <= sync.day
    BY <2>1, <2>3, <1>6, <1>7 DEF WantInv, Placed, TypedInv, SyncRows
  <2>6. ASSUME NEW x \in OrderNumbers
        PROVE  /\ Placed(x)' /\ remote'[x].placed \in (sync.day - WindowDays)..(sync.day - 1) => x \in sync.want
               /\ local[x].there /\ remote'[x].placed \in (sync.day - WindowDays)..sync.day => x \in sync.want
    <3>1. CASE x = o
      BY <3>1, <1>6, <1>9, <2>2
    <3>2. CASE x # o
      BY <3>2, <2>1, <1>6, <1>7 DEF WantInv, Placed
    <3>3. QED
      BY <3>1, <3>2
  <2>7. QED
    BY <2>1, <2>4, <2>5, <2>6, <1>1, <1>7 DEF WantInv, Searched
<1>14. GotInv'
  BY <1>1, <1>7, <1>11 DEF GotInv, TypedInv, SyncRows, Details1
<1>15. NothingMissed'
  <2>1. state.ok \in Nat /\ state.ok <= today
    BY <1>7 DEF TypedInv, StateRows, ClockInv
  <2>2. QED
    BY <2>1, <1>1, <1>3, <1>6, <1>7 DEF NothingMissed, Placed
<1>16. NothingStale'
  BY <1>1, <1>6, <1>7, <1>9 DEF NothingStale
<1>17. QED
  BY <1>8, <1>10, <1>12, <1>13, <1>14, <1>15, <1>16 DEF SearchInv

LEMMA ChangeStep ==
  ASSUME SearchConstants, SearchInv, NEW o \in OrderNumbers, NEW done \in BOOLEAN, NEW adjusted \in BOOLEAN,
         Change(o, done, adjusted)
  PROVE  SearchInv'
<1>0. TypedInv /\ ClockInv /\ StoredInv /\ VersionInv /\ WantInv /\ GotInv /\ NothingMissed /\ NothingStale
  BY DEF SearchInv
<1>1. UNCHANGED <<today, local, sync, state>>
  BY DEF Change
<1>a. PICK n \in Nat : n = remote[o].version + 1
  BY <1>0 DEF TypedInv, RemoteRows
<1>2. PICK r : r = [remote[o] EXCEPT !.version = n, !.done = done, !.adjusted = adjusted]
  OBVIOUS
<1>3. r \in RemoteRows /\ r.placed = remote[o].placed /\ r.version = remote[o].version + 1
  BY <1>0, <1>a, <1>2 DEF TypedInv, RemoteRows
<1>4. remote' = [remote EXCEPT ![o] = r]
  BY <1>0, <1>a, <1>2 DEF Change, TypedInv
<1>5. /\ remote' \in [OrderNumbers -> RemoteRows]
      /\ \A x \in OrderNumbers : /\ remote'[x].placed = remote[x].placed
                                 /\ remote[x].version \in Nat /\ remote'[x].version \in Nat
                                 /\ remote[x].version <= remote'[x].version
  BY <1>0, <1>3, <1>4 DEF TypedInv, RemoteRows
<1>6. TypedInv' /\ ClockInv'
  BY <1>0, <1>1, <1>5 DEF TypedInv, ClockInv, Started
<1>7. StoredInv'
  <2>1. \A x \in OrderNumbers : local[x].version \in Nat
    BY <1>0 DEF TypedInv, LocalRows
  <2>2. QED
    BY <2>1, <1>0, <1>1, <1>5 DEF StoredInv, Placed
<1>8. VersionInv'
  <2>1. \A x \in OrderNumbers : state.dawn[x] \in Nat /\ sync.known[x] \in Nat
    BY <1>0 DEF TypedInv, StateRows, SyncRows, Numbers
  <2>2. QED
    BY <2>1, <1>0, <1>1, <1>5 DEF VersionInv, Started
<1>9. WantInv'
  <2>1. WindowDays' = WindowDays /\ Recheck(sync.day)' = Recheck(sync.day)
    BY <1>1, <1>5 DEF WindowDays, Recheck, RecheckDue
  <2>2. sync.want \subseteq OrderNumbers
    BY <1>0 DEF TypedInv, SyncRows
  <2>3. QED
    BY <2>1, <2>2, <1>0, <1>1, <1>5 DEF WantInv, Searched, Placed
<1>10. GotInv'
  <2>1. \A x \in sync.got : x.order \in OrderNumbers /\ x.version \in Nat
    BY <1>0 DEF TypedInv, SyncRows, Details1
  <2>2. QED
    BY <2>1, <1>0, <1>1, <1>5 DEF GotInv
<1>11. NothingMissed' /\ NothingStale'
  BY <1>0, <1>1, <1>5 DEF NothingMissed, NothingStale, Placed
<1>12. QED
  BY <1>6, <1>7, <1>8, <1>9, <1>10, <1>11 DEF SearchInv

LEMMA TickStep ==
  ASSUME SearchConstants, OutagesShort = TRUE, SearchInv, Tick
  PROVE  SearchInv'
<1>0. TypedInv /\ ClockInv /\ StoredInv /\ VersionInv /\ WantInv /\ GotInv /\ NothingMissed /\ NothingStale
  BY DEF SearchInv
<1>1. /\ today < MaxDay /\ today' = today + 1 /\ UNCHANGED <<remote, local, sync>>
      /\ state.complete => today' <= state.ok + RecentDays
      /\ Started => today' <= sync.day + RecentDays
  BY DEF Tick, Started
<1>2. /\ today \in Nat /\ today' \in 0..MaxDay /\ state.ok \in Nat /\ sync.day \in Nat
      /\ \A o \in OrderNumbers : Placed(o) => remote[o].placed \in Int
      /\ \A o \in OrderNumbers : local[o].synced \in Nat
  BY <1>0, <1>1, PlacedDay DEF SearchConstants, TypedInv, StateRows, SyncRows, LocalRows
<1>3. PICK v \in Numbers : v = RemoteVersions /\ \A o \in OrderNumbers : v[o] = remote[o].version
  BY <1>0, VersionsTyped
<1>4. /\ state' \in StateRows /\ state'.complete = state.complete /\ state'.ok = state.ok
      /\ state'.first = state.first /\ state'.known = state.known /\ state'.begun = state.begun
      /\ state'.dawn = v
  BY <1>0, <1>3 DEF Tick, TypedInv, StateRows
<1>5. TypedInv'
  BY <1>0, <1>1, <1>2, <1>4 DEF TypedInv
<1>6. ClockInv'
  BY <1>0, <1>1, <1>2, <1>4 DEF ClockInv, Started
<1>7. StoredInv'
  BY <1>0, <1>1, <1>2, <1>4 DEF StoredInv, Placed
<1>8. VersionInv'
  <2>1. \A o \in OrderNumbers : v[o] <= remote[o].version
    BY <1>0, <1>3 DEF TypedInv, RemoteRows
  <2>2. \A o \in OrderNumbers : ~(local[o].there /\ local[o].synced >= today')
    BY <1>0, <1>1, <1>2 DEF StoredInv, ClockInv
  <2>3. Started => sync.day # today'
    BY <1>0, <1>1, <1>2 DEF ClockInv
  <2>4. QED
    BY <2>1, <2>2, <2>3, <1>0, <1>1, <1>4 DEF VersionInv, Started
<1>9. WantInv' /\ GotInv'
  BY <1>0, <1>1 DEF WantInv, GotInv, Searched, WindowDays, Recheck, RecheckDue, Placed
<1>10. NothingMissed' /\ NothingStale'
  BY <1>0, <1>1, <1>4 DEF NothingMissed, NothingStale, Placed
<1>11. QED
  BY <1>5, <1>6, <1>7, <1>8, <1>9, <1>10 DEF SearchInv

-----------------------------------------------------------------------------
(* The steps of a sync. *)

LEMMA RestTyped ==
  ASSUME TypedInv
  PROVE  AtRest \in SyncRows /\ AtRest.pc = "idle"
<1>1. Nothing \in Numbers
  BY DEF Nothing, Numbers
<1>2. QED
  BY <1>1 DEF AtRest, SyncRows

LEMMA BeginStep ==
  ASSUME SearchConstants, SearchInv, NEW force \in BOOLEAN, Begin(force)
  PROVE  SearchInv'
<1>0. TypedInv /\ ClockInv /\ StoredInv /\ VersionInv /\ WantInv /\ GotInv /\ NothingMissed /\ NothingStale
  BY DEF SearchInv
<1>1. UNCHANGED <<today, remote, local, state>>
  BY DEF Begin
<1>2. PICK v \in Numbers : v = RemoteVersions /\ \A o \in OrderNumbers : v[o] = remote[o].version
  BY <1>0, VersionsTyped
<1>3. PICK full \in BOOLEAN : full = (force \/ ~state.complete)
  BY <1>0 DEF TypedInv, StateRows
<1>4. sync' = [AtRest EXCEPT !.pc = "search", !.full = full, !.day = today, !.known = v, !.dawn = state.dawn]
  BY <1>2, <1>3 DEF Begin
<1>5. state.dawn \in Numbers /\ today \in Nat /\ state.ok \in Nat /\ RecentDays \in Nat
  BY <1>0, DaysOfSync DEF TypedInv, StateRows, SearchConstants
<1>6. /\ sync' \in SyncRows /\ sync'.pc = "search" /\ sync'.full = full /\ sync'.day = today
      /\ sync'.known = v /\ sync'.dawn = state.dawn
  BY <1>0, <1>4, <1>5, RestTyped DEF SyncRows
<1>7. TypedInv' /\ NothingMissed' /\ NothingStale' /\ StoredInv'
  BY <1>0, <1>1, <1>6 DEF TypedInv, NothingMissed, NothingStale, StoredInv, Placed
<1>8. ClockInv'
  <2>1. ~full => state.complete
    BY <1>3
  <2>2. today <= today + RecentDays
    BY <1>5
  <2>3. ~sync'.full => state'.complete
    BY <2>1, <1>1, <1>6
  <2>4. /\ state'.ok <= today'
        /\ state'.complete => today' <= state'.ok + RecentDays
        /\ state'.ok <= sync'.day /\ sync'.day <= today' /\ today' <= sync'.day + RecentDays
    BY <2>2, <1>0, <1>1, <1>5, <1>6 DEF ClockInv
  <2>5. QED
    BY <2>3, <2>4 DEF ClockInv, Started
<1>9. VersionInv'
  <2>1. \A o \in OrderNumbers : remote[o].version \in Nat /\ state.dawn[o] <= v[o] /\ v[o] <= remote[o].version
    BY <1>0, <1>2 DEF TypedInv, RemoteRows, VersionInv
  <2>2. QED
    BY <2>1, <1>0, <1>1, <1>6 DEF VersionInv, Started
<1>10. WantInv' /\ GotInv'
  BY <1>6 DEF WantInv, GotInv, Searched
<1>11. QED
  BY <1>7, <1>8, <1>9, <1>10 DEF SearchInv

LEMMA SearchStep ==
  ASSUME SearchConstants, SearchInv, Search
  PROVE  SearchInv'
<1>0. TypedInv /\ ClockInv /\ StoredInv /\ VersionInv /\ WantInv /\ GotInv /\ NothingMissed /\ NothingStale
  BY DEF SearchInv
<1>1. sync.pc = "search" /\ UNCHANGED <<today, remote, local, state>>
  BY DEF Search
<1>2. PICK want : want = Found(sync.day - WindowDays, sync.day) \cup (IF sync.full THEN {} ELSE Recheck(sync.day))
  OBVIOUS
<1>3. want \in SUBSET OrderNumbers
  BY <1>2 DEF Found, Recheck
<1>4. sync' = [sync EXCEPT !.pc = "details", !.want = want]
  BY <1>2 DEF Search
<1>5. /\ sync' \in SyncRows /\ sync'.pc = "details" /\ sync'.want = want /\ sync'.full = sync.full
      /\ sync'.day = sync.day /\ sync'.known = sync.known /\ sync'.dawn = sync.dawn
  BY <1>0, <1>3, <1>4 DEF TypedInv, SyncRows
<1>6. /\ sync.day \in Nat /\ WindowDays \in Nat \ {0} /\ sync.full \in BOOLEAN /\ state.ok \in Nat
      /\ state.ok <= sync.day
  BY <1>0, <1>1, DaysOfSync DEF TypedInv, SyncRows, StateRows, ClockInv, Started
<1>7. PICK first \in Int : first = sync.day - WindowDays
  BY <1>6
<1>8. first < sync.day /\ sync.day \in Int
  BY <1>6, <1>7
<1>9. \A o \in OrderNumbers : Placed(o) => remote[o].placed \in Int
  BY <1>0, PlacedDay
<1>10. \A o \in OrderNumbers : o \in Found(first, sync.day) <=> Placed(o) /\ remote[o].placed \in first..sync.day
  BY <1>8, <1>9, FoundOrders
<1>11. TypedInv' /\ ClockInv' /\ StoredInv' /\ VersionInv' /\ NothingMissed' /\ NothingStale'
  BY <1>0, <1>1, <1>5
     DEF TypedInv, ClockInv, StoredInv, VersionInv, NothingMissed, NothingStale, Placed, Started
<1>12. WantInv'
  <2>1. WindowDays' = WindowDays /\ Recheck(sync.day)' = Recheck(sync.day) /\ \A o : Placed(o)' <=> Placed(o)
    BY <1>1, <1>5 DEF WindowDays, Recheck, RecheckDue, Placed
  <2>2. ASSUME NEW o \in want
        PROVE  Placed(o) /\ remote[o].placed <= sync.day
    <3>1. CASE o \in Found(first, sync.day)
      BY <3>1, <1>3, <1>8, <1>10
    <3>2. CASE o \in Recheck(sync.day)
      <4>1. local[o].there /\ o \in OrderNumbers
        BY <3>2 DEF Recheck
      <4>2. QED
        BY <4>1, <1>0, <1>6, <1>9 DEF StoredInv
    <3>3. QED
      BY <3>1, <3>2, <1>2, <1>7
  <2>3. ASSUME NEW o \in OrderNumbers
        PROVE  /\ Placed(o) /\ remote[o].placed \in (sync.day - WindowDays)..(sync.day - 1) => o \in want
               /\ local[o].there /\ remote[o].placed \in (sync.day - WindowDays)..sync.day => o \in want
               /\ ~sync.full /\ o \in Recheck(sync.day) => o \in want
    <3>1. local[o].there => Placed(o)
      BY <1>0 DEF StoredInv
    <3>2. o \in Found(first, sync.day) => o \in want
      BY <1>2, <1>7
    <3>3. QED
      BY <3>1, <3>2, <1>2, <1>6, <1>7, <1>9, <1>10
  <2>4. QED
    BY <2>1, <2>2, <2>3, <1>1, <1>5 DEF WantInv
<1>13. GotInv'
  BY <1>5 DEF GotInv
<1>14. QED
  BY <1>11, <1>12, <1>13 DEF SearchInv

LEMMA DetailsStep ==
  ASSUME SearchConstants, SearchInv, Details
  PROVE  SearchInv'
<1>0. TypedInv /\ ClockInv /\ StoredInv /\ VersionInv /\ WantInv /\ GotInv /\ NothingMissed /\ NothingStale
  BY DEF SearchInv
<1>1. sync.pc = "details" /\ UNCHANGED <<today, remote, local, state>>
  BY DEF Details
<1>2. PICK got : got = {[order |-> o, version |-> remote[o].version, done |-> remote[o].done,
                         adjusted |-> remote[o].adjusted] : o \in sync.want}
  OBVIOUS
<1>3. sync.want \in SUBSET OrderNumbers
  BY <1>0 DEF TypedInv, SyncRows
<1>4. /\ got \in SUBSET Details1
      /\ \A o \in sync.want : \E r \in got : r.order = o
      /\ \A r \in got : r.order \in OrderNumbers /\ r.version = remote[r.order].version
  <2> DEFINE Detail(o) == [order |-> o, version |-> remote[o].version, done |-> remote[o].done,
                           adjusted |-> remote[o].adjusted]
  <2>1. \A o \in OrderNumbers : Detail(o) \in Details1 /\ Detail(o).order = o /\ Detail(o).version = remote[o].version
    BY <1>0 DEF TypedInv, RemoteRows, Details1
  <2>2. got = {Detail(o) : o \in sync.want}
    BY <1>2
  <2> HIDE DEF Detail
  <2>3. QED
    BY <2>1, <2>2, <1>3
<1>5. sync' = [sync EXCEPT !.pc = "store", !.got = got]
  BY <1>2 DEF Details
<1>6. /\ sync' \in SyncRows /\ sync'.pc = "store" /\ sync'.want = sync.want /\ sync'.full = sync.full
      /\ sync'.day = sync.day /\ sync'.known = sync.known /\ sync'.dawn = sync.dawn /\ sync'.got = got
  BY <1>0, <1>4, <1>5 DEF TypedInv, SyncRows
<1>7. TypedInv' /\ ClockInv' /\ StoredInv' /\ VersionInv' /\ NothingMissed' /\ NothingStale'
  BY <1>0, <1>1, <1>6
     DEF TypedInv, ClockInv, StoredInv, VersionInv, NothingMissed, NothingStale, Placed, Started
<1>8. WantInv'
  <2>1. WindowDays' = WindowDays /\ Recheck(sync.day)' = Recheck(sync.day) /\ \A o : Placed(o)' <=> Placed(o)
    BY <1>1, <1>6 DEF WindowDays, Recheck, RecheckDue, Placed
  <2>2. Searched
    BY <1>1 DEF Searched
  <2>3. QED
    BY <2>1, <2>2, <1>0, <1>1, <1>6 DEF WantInv
<1>9. GotInv'
  <2>1. \A o \in OrderNumbers : sync.known[o] <= remote[o].version /\ remote[o].version \in Nat
    BY <1>0, <1>1 DEF VersionInv, Started, TypedInv, RemoteRows
  <2>2. QED
    BY <2>1, <1>1, <1>4, <1>6 DEF GotInv
<1>10. QED
  BY <1>7, <1>8, <1>9 DEF SearchInv

LEMMA FailStep ==
  ASSUME SearchConstants, SearchInv, Fail
  PROVE  SearchInv'
<1>0. TypedInv /\ ClockInv /\ StoredInv /\ VersionInv /\ NothingMissed /\ NothingStale
  BY DEF SearchInv
<1>1. sync' \in SyncRows /\ sync'.pc = "idle" /\ UNCHANGED <<today, remote, local, state>>
  BY <1>0, RestTyped DEF Fail
<1>2. QED
  BY <1>0, <1>1 DEF SearchInv, TypedInv, ClockInv, StoredInv, VersionInv, WantInv, GotInv, NothingMissed,
                    NothingStale, Placed, Started, Searched

LEMMA StoreStep ==
  ASSUME SearchConstants, SearchInv, Store
  PROVE  SearchInv'
<1>0. TypedInv /\ ClockInv /\ StoredInv /\ VersionInv /\ WantInv /\ GotInv /\ NothingMissed /\ NothingStale
  BY DEF SearchInv
<1>1. sync.pc = "store" /\ UNCHANGED <<today, remote>> /\ sync' \in SyncRows /\ sync'.pc = "idle"
  BY <1>0, RestTyped DEF Store
<1>2. PICK day \in Nat : day = sync.day
  BY <1>0 DEF TypedInv, SyncRows
<1>3. PICK days \in Nat \ {0} : days = WindowDays
  BY <1>0, DaysOfSync
<1>4. /\ RecentDays <= days /\ RecentDays \in Nat /\ AdjustedDays \in Nat /\ CompletedDays \in Nat
      /\ RecentDays <= AdjustedDays /\ AdjustedDays <= CompletedDays
      /\ sync.full => CompletedDays <= days
  BY <1>0, <1>3, DaysOfSync
<1>5. /\ today \in Nat /\ state.ok \in Nat /\ state.first \in Int
      /\ sync.want \in SUBSET OrderNumbers /\ sync.got \in SUBSET Details1
      /\ sync.known \in Numbers /\ sync.dawn \in Numbers /\ state.dawn \in Numbers
  BY <1>0 DEF TypedInv, SyncRows, StateRows, SearchConstants
<1>6. /\ state.ok <= day /\ day <= today /\ (~sync.full => state.complete)
      /\ state.complete => day <= state.ok + RecentDays
  BY <1>0, <1>1, <1>2, <1>4, <1>5 DEF ClockInv, Started
<1>7. \A o \in OrderNumbers : /\ Placed(o) => remote[o].placed \in Int
                              /\ local[o].there => Placed(o) /\ remote[o].placed <= state.ok
  BY <1>0, PlacedDay DEF StoredInv
<1>8. ASSUME NEW o \in sync.want
      PROVE  /\ local'[o] \in LocalRows /\ local'[o].there /\ local'[o].synced = day
             /\ sync.known[o] <= local'[o].version /\ local'[o].version <= remote[o].version
             /\ local'[o].version \in Nat
  <2>1. PICK r : r = Snapshot(o)
    OBVIOUS
  <2>2. r \in sync.got /\ r.order = o
    BY <2>1, <1>0, <1>1 DEF GotInv, Snapshot
  <2>3. r \in Details1 /\ sync.known[o] <= r.version /\ r.version <= remote[o].version
    BY <2>2, <1>0, <1>1, <1>5 DEF GotInv
  <2>4. local'[o] = [there |-> TRUE, version |-> r.version, done |-> r.done,
                     adjusted |-> r.adjusted, synced |-> day]
    BY <2>1, <1>2, <1>5 DEF Store
  <2>5. QED
    BY <2>3, <2>4 DEF Details1, LocalRows
<1>9. \A o \in OrderNumbers \ sync.want : local'[o] = local[o]
  BY DEF Store
<1>10. local' \in [OrderNumbers -> LocalRows]
  <2>1. local' = [o \in OrderNumbers |-> local'[o]]
    BY DEF Store
  <2>2. \A o \in OrderNumbers : local'[o] \in LocalRows
    BY <1>0, <1>8, <1>9 DEF TypedInv
  <2>3. QED
    BY <2>1, <2>2
<1>11. PICK first \in Int :
         first = IF state.complete /\ state.first < day - days THEN state.first ELSE day - days
  BY <1>2, <1>3, <1>5
<1>12. /\ state' \in StateRows /\ state'.complete /\ state'.ok = day /\ state'.first = first
       /\ state'.known = sync.known /\ state'.begun = sync.dawn /\ state'.dawn = state.dawn
  <2>1. state' = [state EXCEPT !.complete = TRUE, !.ok = day, !.first = first,
                               !.known = sync.known, !.begun = sync.dawn]
    BY <1>0, <1>2, <1>3, <1>11 DEF Store, TypedInv, StateRows
  <2>2. QED
    BY <2>1, <1>0, <1>2, <1>5, <1>11 DEF TypedInv, StateRows
<1>13. ASSUME NEW o \in OrderNumbers
       PROVE  /\ o \in sync.want => Placed(o) /\ remote[o].placed <= day
              /\ Placed(o) /\ remote[o].placed \in (day - days)..(day - 1) => o \in sync.want
              /\ local[o].there /\ remote[o].placed \in (day - days)..day => o \in sync.want
              /\ ~sync.full /\ o \in Recheck(day) => o \in sync.want
  BY <1>0, <1>1, <1>2, <1>3 DEF WantInv, Searched
<1>14. TypedInv' /\ ClockInv' /\ WantInv' /\ GotInv'
  <2>1. TypedInv'
    BY <1>0, <1>1, <1>10, <1>12 DEF TypedInv
  <2>2. today <= day + RecentDays
    BY <1>0, <1>1, <1>2 DEF ClockInv, Started
  <2>3. ClockInv'
    BY <2>2, <1>1, <1>6, <1>12 DEF ClockInv, Started
  <2>4. QED
    BY <2>1, <2>3, <1>1 DEF WantInv, GotInv, Searched
<1>15. StoredInv'
  <2>1. ASSUME NEW o \in OrderNumbers
        PROVE  /\ Placed(o)' => remote'[o].placed <= today'
               /\ local'[o].there =>
                    /\ Placed(o)' /\ remote'[o].placed <= state'.ok
                    /\ local'[o].version <= remote'[o].version
                    /\ local'[o].synced <= state'.ok /\ state'.complete
    <3>1. Placed(o)' <=> Placed(o)
      BY <1>1 DEF Placed
    <3>2. local[o].synced \in Nat
      BY <1>0 DEF TypedInv, LocalRows
    <3>3. CASE o \in sync.want
      BY <3>1, <3>3, <1>0, <1>1, <1>8, <1>12, <1>13 DEF StoredInv
    <3>4. CASE o \notin sync.want
      <4>1. local'[o] = local[o] /\ remote'[o] = remote[o] /\ today' = today
            /\ state'.ok = day /\ state'.complete
        BY <3>4, <1>1, <1>9, <1>12
      <4>2. Placed(o) => remote[o].placed <= today
        BY <1>0 DEF StoredInv
      <4>3. ASSUME local[o].there
            PROVE  /\ Placed(o) /\ remote[o].placed <= day
                   /\ local[o].version <= remote[o].version /\ local[o].synced <= day
        <5>1. /\ Placed(o) /\ remote[o].placed <= state.ok
              /\ local[o].version <= remote[o].version /\ local[o].synced <= state.ok
          BY <4>3, <1>0 DEF StoredInv
        <5>2. remote[o].placed \in Int
          BY <5>1, <1>7
        <5>3. QED
          BY <5>1, <5>2, <3>2, <1>5, <1>6
      <4>4. QED
        BY <3>1, <4>1, <4>2, <4>3
    <3>5. QED
      BY <3>3, <3>4
  <2>2. QED
    BY <2>1 DEF StoredInv
<1>16. VersionInv'
  <2>1. ASSUME NEW o \in OrderNumbers
        PROVE  /\ state'.dawn[o] <= remote'[o].version
               /\ local'[o].there /\ local'[o].synced >= today' => state'.dawn[o] <= local'[o].version
    <3>1. /\ state.dawn[o] <= remote[o].version /\ (day = today => state.dawn[o] <= sync.known[o])
          /\ local[o].there /\ local[o].synced >= today => state.dawn[o] <= local[o].version
          /\ state.dawn[o] \in Nat /\ sync.known[o] \in Nat
      BY <1>0, <1>1, <1>2, <1>5 DEF VersionInv, Started, Numbers
    <3>2. CASE o \in sync.want
      BY <3>1, <3>2, <1>1, <1>5, <1>6, <1>8, <1>12
    <3>3. CASE o \notin sync.want
      BY <3>1, <3>3, <1>1, <1>9, <1>12
    <3>4. QED
      BY <3>2, <3>3
  <2>2. QED
    BY <2>1, <1>1 DEF VersionInv, Started
<1>17. NothingMissed'
  <2>1. ASSUME NEW o \in OrderNumbers, Placed(o), remote[o].placed \in first..(day - 1), o \notin sync.want
        PROVE  local[o].there
    <3>1. remote[o].placed \in Int /\ remote[o].placed < day - days
      BY <2>1, <1>7, <1>13
    <3>2. state.complete /\ first = state.first
      BY <2>1, <3>1, <1>11
    <3>3. remote[o].placed \in state.first..(state.ok - 1)
      BY <2>1, <3>1, <3>2, <1>4, <1>5, <1>6
    <3>4. QED
      BY <2>1, <3>2, <3>3, <1>0 DEF NothingMissed
  <2>2. QED
    BY <2>1, <1>1, <1>8, <1>9, <1>12 DEF NothingMissed, Placed
<1>18. NothingStale'
  <2>1. ASSUME NEW o \in OrderNumbers, local'[o].there, NEW age \in Int, age = day - remote[o].placed
        PROVE  /\ age <= RecentDays \/ (age <= AdjustedDays /\ (~local'[o].done \/ local'[o].adjusted)) =>
                    local'[o].version >= sync.known[o]
               /\ age <= CompletedDays /\ local'[o].done => local'[o].version >= sync.dawn[o]
    <3>1. sync.known[o] \in Nat /\ sync.dawn[o] \in Nat /\ sync.dawn[o] <= sync.known[o]
      BY <1>0, <1>1, <1>5 DEF VersionInv, Started, Numbers
    <3>2. CASE o \in sync.want
      BY <3>1, <3>2, <1>8
    <3>3. CASE o \notin sync.want
      <4>1. local'[o] = local[o] /\ local[o].there
        BY <2>1, <3>3, <1>9
      <4>2. remote[o].placed \in Int /\ remote[o].placed < day - days
        <5>1. Placed(o) /\ remote[o].placed \in Int /\ remote[o].placed <= state.ok
          BY <4>1, <1>7
        <5>2. remote[o].placed \notin (day - days)..day
          BY <4>1, <3>3, <1>13
        <5>3. QED
          BY <5>1, <5>2, <1>5, <1>6
      <4>3. age > days
        BY <4>2, <2>1
      <4>4. ASSUME age <= CompletedDays
            PROVE  ~sync.full /\ o \notin Recheck(day) /\ remote[o].placed >= day - CompletedDays
        BY <4>2, <4>3, <4>4, <2>1, <3>3, <1>4, <1>13
      <4>5. ASSUME age <= AdjustedDays
            PROVE  remote[o].placed >= day - AdjustedDays /\ age <= CompletedDays
        BY <4>2, <4>5, <2>1, <1>4
      <4>6. ~(age <= AdjustedDays /\ (~local[o].done \/ local[o].adjusted))
        BY <4>1, <4>4, <4>5 DEF Recheck
      <4>7. ASSUME age <= CompletedDays, local[o].done
            PROVE  local[o].version >= sync.dawn[o]
        <5>1. ~(local[o].synced <= day - 1)
          BY <4>1, <4>4, <4>7 DEF Recheck, RecheckDue
        <5>2. local[o].synced >= day /\ local[o].version \in Nat
          BY <5>1, <1>0 DEF TypedInv, LocalRows
        <5>3. QED
          BY <5>2, <4>1, <3>1, <1>0, <1>1, <1>2 DEF VersionInv, Started
      <4>8. ~(age <= RecentDays)
        BY <4>3, <1>4
      <4>9. QED
        BY <4>1, <4>6, <4>7, <4>8
    <3>4. QED
      BY <3>2, <3>3
  <2>2. \A o \in OrderNumbers : local'[o].there => day - remote[o].placed \in Int
    <3> SUFFICES ASSUME NEW o \in OrderNumbers, local'[o].there
                 PROVE  day - remote[o].placed \in Int
      OBVIOUS
    <3>1. CASE o \in sync.want
      BY <3>1, <1>7, <1>13
    <3>2. CASE o \notin sync.want
      <4>1. local[o].there
        BY <3>2, <1>9
      <4>2. QED
        BY <4>1, <1>7
    <3>3. QED
      BY <3>1, <3>2
  <2>3. QED
    BY <2>1, <2>2, <1>1, <1>12 DEF NothingStale
<1>19. QED
  BY <1>14, <1>15, <1>16, <1>17, <1>18 DEF SearchInv

-----------------------------------------------------------------------------
LEMMA SearchAlways ==
  ASSUME SearchConstants, OutagesShort = TRUE
  PROVE  SearchSpec => []SearchInv
<1>1. ASSUME SearchInv, [SearchNext]_searchVars
      PROVE  SearchInv'
  <2>1. CASE UNCHANGED searchVars
    BY <1>1, <2>1 DEF searchVars, SearchInv, TypedInv, ClockInv, StoredInv, VersionInv, WantInv, GotInv,
                      NothingMissed, NothingStale, Started, Searched, Placed, Recheck, RecheckDue, WindowDays
  <2>2. CASE World
    BY <1>1, <2>2, TickStep, PlaceStep, ChangeStep DEF World
  <2>3. CASE \E force \in BOOLEAN : Begin(force)
    BY <1>1, <2>3, BeginStep
  <2>4. CASE Search \/ Details \/ Store \/ Fail
    BY <1>1, <2>4, SearchStep, DetailsStep, StoreStep, FailStep
  <2>5. QED
    BY <1>1, <2>1, <2>2, <2>3, <2>4 DEF SearchNext
<1>2. QED
  BY <1>1, InitSearch, PTL DEF SearchSpec

(* The variables keep their types, and no stored order is newer than the    *)
(* one at Rakuten.                                                          *)
THEOREM SearchTyping ==
  ASSUME SearchConstants, OutagesShort = TRUE
  PROVE  SearchSpec => []SearchTypeOK
<1>1. SearchInv => SearchTypeOK
  BY DEF SearchInv, TypedInv, ClockInv, StoredInv, SyncRows, SearchTypeOK
<1>2. QED
  BY <1>1, SearchAlways, PTL

(* If a store is never without a sync for longer than the recent days, no   *)
(* order of the days that its syncs have covered is missing                 *)
(* (search_order_numbers, sync_owned_store): the windows of a search cover  *)
(* its days, and the days of successive searches overlap, whatever fails.   *)
THEOREM NoOrderMissed ==
  ASSUME SearchConstants, OutagesShort = TRUE
  PROVE  SearchSpec => []NothingMissed
<1>1. SearchInv => NothingMissed
  BY DEF SearchInv
<1>2. QED
  BY <1>1, SearchAlways, PTL

(* After a sync the stored orders are as recent as the rules of rechecking  *)
(* promise (_local_recheck_order_numbers, _completed_order_recheck_due): of *)
(* the sync's beginning, or of the beginning of its day for completed ones. *)
THEOREM StoredIsRecent ==
  ASSUME SearchConstants, OutagesShort = TRUE
  PROVE  SearchSpec => []NothingStale
<1>1. SearchInv => NothingStale
  BY DEF SearchInv
<1>2. QED
  BY <1>1, SearchAlways, PTL

-----------------------------------------------------------------------------
(* OrderBooks: what is stored of an order, and its daily sales. *)

OrderRows == [stored : BOOLEAN, at : Slots, version : Versions \cup {0}, unresolved : BOOLEAN]
AdjRows == [status : {"none", "confirmed", "unresolved", "reverted"}, units : Nat]
Divisions == [ordered : Nat, canceled : Nat, refunded : Nat, returned : Nat, effective : Nat]
ItemRows == [stored : BOOLEAN, at : Slots, ordered : Nat, canceled : Nat, refunded : Nat,
             returned : Nat, effective : Nat]
Confirmable == {"canceled", "refunded", "returned"}

(* Every row has its fields; every day has its sales, whose sums over       *)
(* orders need no type.                                                     *)
BooksTyped ==
  /\ now \in Slots /\ open \in BOOLEAN /\ dates \in SUBSET Days
  /\ order \in [Orders -> OrderRows]
  /\ item \in [Orders -> [Lines -> ItemRows]]
  /\ adj \in [Orders -> [Lines -> [Sources -> AdjRows]]]
  /\ daily = [d \in Days |-> daily[d]]

Traced(o, l) == \E k \in Kinds : adj[o][l][<<"unresolved", k>>].status = "unresolved"
InForce(row) == IF row.status = "confirmed" THEN row.units ELSE 0

(* A line without a row belongs to no adjustment in force, and a line with  *)
(* one to a stored order.                                                   *)
LinesInv ==
  \A o \in Orders, l \in Lines :
    IF item[o][l].stored THEN order[o].stored ELSE item[o][l] = NoItem /\ ~Traced(o, l)

(* What the adjustments say, line by line.                                  *)
AdjInv ==
  \A o \in Orders :
    /\ \A l \in Lines, f \in Confirmable : item[o][l][f] = InForce(adj[o][l][<<"confirmed", f>>])
    /\ \A l, m \in Lines : Traced(o, l) /\ Traced(o, m) => l = m
    /\ (\E l \in Lines : item[o][l].stored) =>
         (order[o].unresolved <=> \E l \in Lines : Traced(o, l))

(* An order that lists all its lines when its date changes has one date; so *)
(* the days a transaction still has to rebuild are between its dates.       *)
DatesInv == \A o \in Orders, l \in Lines : item[o][l].stored => item[o][l].at = order[o].at
SalesInv ==
  /\ ~open => dates = {}
  /\ \A d \in Days \ Between(dates) : daily[d] = SalesOf(item, d)

BooksInv == BooksTyped /\ LinesInv /\ UnitsAddUp /\ AdjInv
DailyInv == BooksInv /\ DatesInv /\ SalesInv

-----------------------------------------------------------------------------
(* Days and sums. *)

LEMMA DayOf ==
  ASSUME MaxSlot \in Nat, NEW a \in Slots
  PROVE  Day(a) \in Days
BY DEF Slots, Day, Days

LEMMA DayOrder ==
  ASSUME NEW a \in Int, NEW b \in Int, Day(a) < Day(b)
  PROVE  a < b /\ Day(a) \in Int /\ Day(b) \in Int
BY DEF Day

LEMMA Inside ==
  ASSUME NEW S \in SUBSET Days, NEW d \in S
  PROVE  d \in Between(S)
<1>1. d \in Days /\ d <= d
  BY DEF Days
<1>2. QED
  BY <1>1 DEF Between

Shows(rows, o, l, d) == rows[o][l].stored /\ Day(rows[o][l].at) = d

(* The sales of a day are those of the rows of that day.                    *)
LEMMA SameSales ==
  ASSUME NEW r, NEW q, NEW d,
         \A o \in Orders, l \in Lines : Shows(r, o, l, d) <=> Shows(q, o, l, d),
         \A o \in Orders, l \in Lines : Shows(r, o, l, d) => r[o][l] = q[o][l]
  PROVE  SalesOf(r, d) = SalesOf(q, d)
<1>1. ASSUME NEW l \in Lines
      PROVE  /\ Sold(r, l, d) = Sold(q, l, d)
             /\ \A f \in Sums : [o \in Sold(r, l, d) |-> r[o][l][f]] = [o \in Sold(q, l, d) |-> q[o][l][f]]
  <2>1. Sold(r, l, d) = Sold(q, l, d)
    BY DEF Sold, Shows
  <2>2. \A o \in Sold(r, l, d) : r[o][l] = q[o][l]
    BY DEF Sold, Shows
  <2>3. QED
    BY <2>1, <2>2
<1> DEFINE R(l, f) == [o \in Sold(r, l, d) |-> r[o][l][f]]
           Q(l, f) == [o \in Sold(q, l, d) |-> q[o][l][f]]
<1>2. ASSUME NEW l \in Lines
      PROVE  (IF Sold(r, l, d) = {} THEN NoSale ELSE [f \in Sums |-> Total(R(l, f))])
             = (IF Sold(q, l, d) = {} THEN NoSale ELSE [f \in Sums |-> Total(Q(l, f))])
  <2>1. \A f \in Sums : R(l, f) = Q(l, f)
    BY <1>1
  <2> HIDE DEF R, Q
  <2>2. [f \in Sums |-> Total(R(l, f))] = [f \in Sums |-> Total(Q(l, f))]
    BY <2>1
  <2>3. QED
    BY <1>1, <2>2
<1>3. SalesOf(r, d) = [l \in Lines |-> IF Sold(r, l, d) = {} THEN NoSale
                                       ELSE [f \in Sums |-> Total(R(l, f))]]
  BY DEF SalesOf
<1>4. SalesOf(q, d) = [l \in Lines |-> IF Sold(q, l, d) = {} THEN NoSale
                                       ELSE [f \in Sums |-> Total(Q(l, f))]]
  BY DEF SalesOf
<1> HIDE DEF R, Q
<1>5. QED
  BY <1>2, <1>3, <1>4

LEMMA NoRowsNoSales ==
  ASSUME NEW r, NEW d, \A o \in Orders, l \in Lines : ~Shows(r, o, l, d)
  PROVE  SalesOf(r, d) = NoSales
<1>1. \A l \in Lines : Sold(r, l, d) = {}
  BY DEF Sold, Shows
<1>2. QED
  BY <1>1 DEF SalesOf, NoSales

-----------------------------------------------------------------------------
(* derive_adjustments. *)

Divides(v, ordered) ==
  /\ v \in Divisions /\ v.ordered = ordered
  /\ v.ordered = v.canceled + v.refunded + v.returned + v.effective

LEMMA DerivedUnits ==
  ASSUME NEW ordered \in Nat, NEW latest \in Nat, NEW all \in BOOLEAN, NEW explicit \in Nat,
         NEW refund \in Nat, NEW return \in Nat, NEW both \in BOOLEAN
  PROVE  Divides(Derived(ordered, latest, all, explicit, refund, return, both), ordered)
<1>0. \A a, b \in Nat : Less(a, b) \in Nat
  BY DEF Less
<1>1. PICK refunds \in Nat : refunds = IF both THEN Less(refund, return) ELSE refund
  <2>1. Less(refund, return) \in Nat
    BY <1>0
  <2>2. CASE both
    BY <2>1, <2>2
  <2>3. CASE ~both
    BY <2>3
  <2>4. QED
    BY <2>2, <2>3
<1>2. PICK implicit \in Nat : implicit = Less(Less(ordered, latest), refunds + return)
  <2>1. Less(ordered, latest) \in Nat /\ refunds + return \in Nat
    BY <1>0
  <2>2. QED
    BY <1>0, <2>1
<1>3. PICK canceled \in 0..ordered :
        canceled = IF all THEN ordered ELSE AtMost(ordered, AtLeast(explicit, implicit))
  BY DEF AtMost, AtLeast
<1>4. PICK left \in Nat : left = Less(ordered, canceled) /\ left + canceled = ordered
  BY DEF Less
<1>5. PICK returned \in 0..left : returned = AtMost(return, left)
  BY DEF AtMost
<1>6. PICK rest \in Nat : rest = Less(left, returned) /\ rest + returned = left
  BY DEF Less
<1>7. PICK refunded \in 0..rest : refunded = AtMost(refunds, rest)
  BY DEF AtMost
<1>8. PICK effective \in Nat :
        /\ effective = Less(ordered, canceled + refunded + returned)
        /\ effective + refunded = rest
  BY <1>4, <1>6 DEF Less
<1> DEFINE v == Derived(ordered, latest, all, explicit, refund, return, both)
<1>9. v = [ordered |-> ordered, canceled |-> canceled, returned |-> returned,
           refunded |-> refunded, effective |-> effective]
  BY <1>1, <1>2, <1>3, <1>4, <1>5, <1>6, <1>7, <1>8 DEF Derived
<1> HIDE DEF v
<1>10. v \in Divisions
  BY <1>9 DEF Divisions
<1>11. Divides(v, ordered)
  BY <1>4, <1>6, <1>8, <1>9, <1>10 DEF Divides
<1>12. QED
  BY <1>11 DEF v

LEMMA SnapshotParts ==
  ASSUME BooksAssumption, BooksTyped, NEW s \in Snapshots
  PROVE  /\ s.order \in Orders /\ s.version \in Nat \cap Versions /\ s.at \in Slots
         /\ s.terms.canceled \in BOOLEAN /\ s.terms.full \in SUBSET Kinds
         /\ s.terms.units \in [Kinds -> Nat]
         /\ DOMAIN s.lines \in SUBSET Lines
         /\ \A l \in DOMAIN s.lines : s.lines[l] \in Report
<1>1. s.lines \in UNION {[L -> Reports] : L \in SUBSET Lines} /\ s.terms \in Terms
      /\ s.order \in Orders /\ s.version \in Versions /\ s.at \in 0..now
  BY DEF Snapshots
<1>2. PICK L \in SUBSET Lines : s.lines \in [L -> Reports]
  BY <1>1
<1>3. s.terms \in Term /\ Reports \subseteq Report
  BY <1>1 DEF BooksAssumption
<1>4. s.at \in Slots
  BY <1>1 DEF BooksTyped, Slots, BooksAssumption
<1>5. s.version \in Nat \cap Versions
  BY <1>1 DEF BooksAssumption
<1>6. QED
  BY <1>1, <1>2, <1>3, <1>4, <1>5 DEF Term

(* What a snapshot makes of a line: the units add up, and those ordered     *)
(* stay what they were.                                                     *)
LEMMA DivisionUnits ==
  ASSUME BooksAssumption, BooksTyped, NEW s \in Snapshots, NEW l \in Lines,
         NEW v, v = Division(s)[l]
  PROVE  /\ v \in Divisions
         /\ v.ordered = v.canceled + v.refunded + v.returned + v.effective
         /\ item[s.order][l].stored => v.ordered = item[s.order][l].ordered
<1>1. PICK it \in ItemRows : it = item[s.order][l]
  BY SnapshotParts DEF BooksTyped
<1>2. s.terms.full \in SUBSET Kinds /\ s.terms.canceled \in BOOLEAN
  BY SnapshotParts
<1>3. it.ordered \in Nat /\ it.stored \in BOOLEAN
  BY DEF ItemRows
<1>4. ASSUME l \in DOMAIN s.lines
      PROVE  /\ v \in Divisions
             /\ v.ordered = v.canceled + v.refunded + v.returned + v.effective
             /\ it.stored => v.ordered = it.ordered
  <2>1. PICK r \in Report : r = s.lines[l]
    BY <1>4, SnapshotParts
  <2>2. r.units \in Nat /\ r.canceled \in Nat /\ r.refund \in Nat /\ r.return \in Nat
        /\ r.both \in BOOLEAN /\ r.deleted \in BOOLEAN
    BY DEF Report
  <2> DEFINE ordered == IF it.stored THEN it.ordered ELSE r.units
             refund == IF "refunded" \in s.terms.full THEN AtLeast(r.refund, ordered) ELSE r.refund
             return == IF "returned" \in s.terms.full THEN AtLeast(r.return, ordered) ELSE r.return
             both == \/ r.both
                     \/ "refunded" \in s.terms.full /\ return > 0
                     \/ "returned" \in s.terms.full /\ refund > 0
             all == s.terms.canceled \/ (r.deleted /\ s.terms.full = {})
  <2>3. v = Listed(it, r, s.terms)
    BY <1>1, <1>4, <2>1 DEF Division
  <2>4. v = Derived(ordered, r.units, all, r.canceled, refund, return, both)
    BY <2>3 DEF Listed
  <2>5. ordered \in Nat /\ (it.stored => ordered = it.ordered)
    BY <1>3, <2>2
  <2>6. refund \in Nat /\ return \in Nat
    <3> HIDE DEF ordered
    <3>1. AtLeast(r.refund, ordered) \in Nat /\ AtLeast(r.return, ordered) \in Nat
      BY <2>2, <2>5 DEF AtLeast
    <3>2. QED
      BY <2>2, <3>1
  <2>7. all \in BOOLEAN
    BY <1>2, <2>2
  <2>8. both \in BOOLEAN
    <3> HIDE DEF ordered, refund, return
    <3>1. QED
      BY <2>2
  <2> HIDE DEF ordered, refund, return, both, all
  <2>9. Divides(v, ordered)
    <3>1. r.units \in Nat /\ r.canceled \in Nat
      BY <2>2
    <3>2. Divides(Derived(ordered, r.units, all, r.canceled, refund, return, both), ordered)
      BY ONLY <3>1, <2>5, <2>6, <2>7, <2>8, DerivedUnits
    <3>3. QED
      BY <2>4, <3>2
  <2>10. QED
    BY <2>5, <2>9 DEF Divides
<1>5. ASSUME l \notin DOMAIN s.lines
      PROVE  /\ v \in Divisions
             /\ v.ordered = v.canceled + v.refunded + v.returned + v.effective
             /\ v.ordered = it.ordered
  <2> DEFINE refund == IF "refunded" \in s.terms.full THEN it.ordered ELSE 0
             return == IF "returned" \in s.terms.full THEN it.ordered ELSE 0
             all == s.terms.canceled \/ s.terms.full = {}
             both == s.terms.full = Kinds
  <2>1. v = Missing(it, s.terms)
    BY <1>1, <1>5 DEF Division
  <2>2. v = Derived(it.ordered, 0, all, 0, refund, return, both)
    BY <2>1 DEF Missing
  <2>3. refund \in Nat /\ return \in Nat
    BY <1>3
  <2>4. all \in BOOLEAN /\ both \in BOOLEAN
    BY <1>2
  <2> HIDE DEF refund, return, both, all
  <2>5. Divides(v, it.ordered)
    BY <1>3, <2>2, <2>3, <2>4, DerivedUnits
  <2>6. QED
    BY <2>5 DEF Divides
<1>6. QED
  BY <1>1, <1>4, <1>5

(* The units that the lines of a snapshot account for, and those they do    *)
(* not.                                                                     *)
LEMMA ResidualUnits ==
  ASSUME BooksAssumption, BooksTyped, NEW s \in Snapshots, NEW k \in Kinds
  PROVE  Residual(s, k) \in Nat
<1> DEFINE Of(l) == {l} \X (1..Division(s)[l][k])
           parts == {Of(l) : l \in DOMAIN s.lines}
<1>1. DOMAIN s.lines \in SUBSET Lines /\ IsFiniteSet(DOMAIN s.lines)
  BY SnapshotParts, FS_Subset DEF BooksAssumption
<1>2. ASSUME NEW l \in DOMAIN s.lines
      PROVE  IsFiniteSet(Of(l))
  <2>1. PICK v : v = Division(s)[l]
    OBVIOUS
  <2>2. v \in Divisions
    BY <1>1, <2>1, DivisionUnits
  <2>3. v[k] \in Nat
    BY <2>2 DEF Divisions, Kinds
  <2>4. IsFiniteSet(1..v[k])
    BY <2>3, FS_Interval
  <2>5. IsFiniteSet({l})
    BY FS_Singleton
  <2>6. IsFiniteSet({l} \X (1..v[k]))
    BY <2>4, <2>5, FS_Product
  <2>7. QED
    BY <2>1, <2>6
<1> HIDE DEF Of
<1>3. IsFiniteSet(parts) /\ \A S \in parts : IsFiniteSet(S)
  <2>1. PICK f : f = [l \in DOMAIN s.lines |-> Of(l)]
    OBVIOUS
  <2>2. f \in Surjection(DOMAIN s.lines, parts)
    BY <2>1 DEF Surjection
  <2>3. IsFiniteSet(parts)
    BY <1>1, <2>2, FS_Surjection
  <2>4. QED
    BY <1>2, <2>3
<1>4. IsFiniteSet(UNION parts)
  BY <1>3, FS_UNION
<1>5. Accounted(s, k) \in Nat
  BY <1>4, FS_CardinalityType DEF Accounted, Of
<1>6. s.terms.units[k] \in Nat
  BY SnapshotParts
<1>7. QED
  BY <1>5, <1>6 DEF Residual, Less

(* The row of a line after its order has been reconciled.                   *)
LEMMA RowAfter ==
  ASSUME BooksAssumption, BooksTyped, LinesInv, NEW s \in Snapshots, NEW l \in Lines,
         NEW row, row = ItemRow(s, l), NEW v, v = Division(s)[l],
         NEW it, it = item[s.order][l]
  PROVE  /\ row \in ItemRows
         /\ row.stored <=> l \in DOMAIN s.lines \/ it.stored
         /\ ~row.stored => row = NoItem /\ it = NoItem
         /\ row.stored => \A f \in Confirmable : row[f] = v[f]
         /\ row.ordered = row.canceled + row.refunded + row.returned + row.effective
         /\ it.stored => row.ordered = it.ordered
         /\ l \in DOMAIN s.lines => row.at = s.at
         /\ l \notin DOMAIN s.lines => row.at = it.at
<1>1. /\ v \in Divisions
      /\ v.ordered = v.canceled + v.refunded + v.returned + v.effective
      /\ it.stored => v.ordered = it.ordered
  BY DivisionUnits
<1>2. s.order \in Orders /\ s.at \in Slots /\ it \in ItemRows
  BY SnapshotParts DEF BooksTyped
<1>3. it.at \in Slots /\ it.stored \in BOOLEAN
  BY <1>2 DEF ItemRows
<1>4. ASSUME NEW at \in Slots, row = Dated(v, TRUE, at)
      PROVE  /\ row \in ItemRows /\ row.stored /\ row.at = at
             /\ row.ordered = v.ordered
             /\ \A f \in Confirmable : row[f] = v[f]
             /\ row.ordered = row.canceled + row.refunded + row.returned + row.effective
  BY <1>1, <1>4 DEF Dated, Divisions, ItemRows, Confirmable
<1>5. CASE l \in DOMAIN s.lines
  <2>1. row = Dated(v, TRUE, s.at)
    BY <1>5 DEF ItemRow
  <2>2. QED
    BY <1>1, <1>2, <1>4, <1>5, <2>1
<1>6. CASE l \notin DOMAIN s.lines /\ it.stored
  <2>1. row = Dated(v, TRUE, it.at)
    BY <1>6 DEF ItemRow
  <2>2. QED
    BY <1>1, <1>3, <1>4, <1>6, <2>1
<1>7. CASE l \notin DOMAIN s.lines /\ ~it.stored
  <2>1. row = NoItem
    BY <1>7 DEF ItemRow
  <2>2. it = NoItem
    BY <1>2, <1>7 DEF LinesInv
  <2>3. /\ NoItem \in ItemRows /\ ~NoItem.stored
        /\ NoItem.ordered = NoItem.canceled + NoItem.refunded + NoItem.returned + NoItem.effective
    BY DEF NoItem, ItemRows, Slots, BooksAssumption
  <2>4. QED
    BY <1>7, <2>1, <2>2, <2>3
<1>8. QED
  BY <1>5, <1>6, <1>7

(* _reconcile_item_adjustments: what is in force is the division of the     *)
(* line, and one line carries what is unresolved.                           *)
Settled(a, s, l, trace) ==
  /\ a \in [Sources -> AdjRows]
  /\ \A f \in Confirmable : InForce(a[<<"confirmed", f>>]) = Division(s)[l][f]
  /\ \A k \in Kinds : a[<<"unresolved", k>>].status = "unresolved"
                        <=> l = trace /\ k \in Unresolved(s)

LEMMA AdjustmentsAfter ==
  ASSUME BooksAssumption, BooksTyped, NEW s \in Snapshots, NEW l \in Lines, NEW trace,
         NEW old \in [Sources -> AdjRows]
  PROVE  Settled(Adjusted(old, Expected(s, l, trace)), s, l, trace)
<1>0. PICK a, v : a = Adjusted(old, Expected(s, l, trace)) /\ v = Division(s)[l]
  OBVIOUS
<1>1. PICK e : e = Expected(s, l, trace)
  OBVIOUS
<1>2. ASSUME NEW src \in Sources
      PROVE  a[src] = IF e[src] # NoAdj \/ old[src] = NoAdj THEN e[src] ELSE Reverted
  BY <1>0, <1>1 DEF Adjusted
<1>3. v \in Divisions
  BY <1>0, DivisionUnits
<1>4. ASSUME NEW f \in Confirmable
      PROVE  InForce(a[<<"confirmed", f>>]) = v[f]
  <2>1. PICK src \in Sources : src = <<"confirmed", f>>
    BY DEF Sources, Confirmable
  <2>2. src[1] = "confirmed" /\ src[2] = f /\ v[f] \in Nat
    BY <1>3, <2>1 DEF Divisions, Confirmable
  <2>3. e[src] = IF v[f] > 0 THEN [status |-> "confirmed", units |-> v[f]] ELSE NoAdj
    BY <1>0, <1>1, <2>2 DEF Expected
  <2>4. CASE v[f] > 0
    <3>1. e[src].status = "confirmed" /\ e[src].units = v[f] /\ e[src] # NoAdj
      BY <2>3, <2>4 DEF NoAdj
    <3>2. QED
      BY <1>2, <2>1, <3>1 DEF InForce
  <2>5. CASE v[f] = 0
    <3>1. e[src] = NoAdj
      BY <2>3, <2>5
    <3>2. a[src] \in {NoAdj, Reverted}
      BY <1>2, <3>1
    <3>3. QED
      BY <2>1, <2>5, <3>2 DEF InForce, NoAdj, Reverted
  <2>6. QED
    BY <2>2, <2>4, <2>5
<1>5. ASSUME NEW k \in Kinds
      PROVE  a[<<"unresolved", k>>].status = "unresolved" <=> l = trace /\ k \in Unresolved(s)
  <2>1. PICK src \in Sources : src = <<"unresolved", k>>
    BY DEF Sources
  <2>2. src[1] = "unresolved" /\ src[2] = k
    BY <2>1
  <2>3. e[src] = IF l = trace /\ k \in Unresolved(s)
                 THEN [status |-> "unresolved", units |-> Residual(s, k)] ELSE NoAdj
    BY <1>1, <2>2 DEF Expected
  <2>4. CASE l = trace /\ k \in Unresolved(s)
    <3>1. e[src].status = "unresolved" /\ e[src] # NoAdj
      BY <2>3, <2>4 DEF NoAdj
    <3>2. QED
      BY <1>2, <2>1, <2>4, <3>1
  <2>5. CASE ~(l = trace /\ k \in Unresolved(s))
    <3>1. e[src] = NoAdj
      BY <2>3, <2>5
    <3>2. a[src] \in {NoAdj, Reverted}
      BY <1>2, <3>1
    <3>3. QED
      BY <2>1, <2>5, <3>2 DEF NoAdj, Reverted
  <2>6. QED
    BY <2>4, <2>5
<1>6. a \in [Sources -> AdjRows]
  <2>1. NoAdj \in AdjRows /\ Reverted \in AdjRows
    BY DEF NoAdj, Reverted, AdjRows
  <2>2. ASSUME NEW src \in Sources
        PROVE  a[src] \in AdjRows
    <3>1. CASE e[src] \in AdjRows
      BY <1>2, <2>1, <3>1
    <3>2. CASE src[1] = "confirmed"
      <4>1. src[2] \in Confirmable
        BY <3>2 DEF Sources, Confirmable
      <4>2. v[src[2]] \in Nat
        BY <1>3, <4>1 DEF Divisions, Confirmable
      <4>3. e[src] = IF v[src[2]] > 0 THEN [status |-> "confirmed", units |-> v[src[2]]] ELSE NoAdj
        BY <1>0, <1>1, <3>2 DEF Expected
      <4>4. e[src] \in AdjRows
        BY <2>1, <4>2, <4>3 DEF AdjRows
      <4>5. QED
        BY <3>1, <4>4
    <3>3. CASE src[1] # "confirmed"
      <4>1. src[2] \in Kinds
        BY <3>3 DEF Sources
      <4>2. Residual(s, src[2]) \in Nat
        BY <4>1, ResidualUnits
      <4>3. e[src] = IF l = trace /\ src[2] \in Unresolved(s)
                     THEN [status |-> "unresolved", units |-> Residual(s, src[2])] ELSE NoAdj
        BY <1>1, <3>3 DEF Expected
      <4>4. e[src] \in AdjRows
        BY <2>1, <4>2, <4>3 DEF AdjRows
      <4>5. QED
        BY <3>1, <4>4
    <3>4. QED
      BY <3>2, <3>3
  <2>3. a = [src \in Sources |-> a[src]]
    BY <1>0 DEF Adjusted
  <2>4. QED
    BY <2>2, <2>3
<1>7. QED
  BY <1>0, <1>4, <1>5, <1>6 DEF Settled

-----------------------------------------------------------------------------
(* A snapshot is reconciled. *)

LEMMA ReconcileRows ==
  ASSUME BooksAssumption, BooksTyped, LinesInv, NEW s \in Snapshots, Reconcile(s), ~Known(s),
         NEW o, o = s.order
  PROVE  /\ BooksTyped' /\ order'[o].stored /\ order'[o].at = s.at
         /\ order'[o].version = s.version
         /\ order'[o].unresolved <=> Unresolved(s) # {}
         /\ \A l \in Lines : item'[o][l] = ItemRow(s, l)
         /\ \A p \in Orders \ {o} : order'[p] = order[p] /\ item'[p] = item[p] /\ adj'[p] = adj[p]
         /\ dates' = dates \cup Affected(s)
         /\ daily' = daily
         /\ \E trace \in Traces(s) : \A l \in Lines :
              adj'[o][l] = IF l \in DOMAIN s.lines \cup Stored(o)
                           THEN Adjusted(adj[o][l], Expected(s, l, trace)) ELSE adj[o][l]
<1>1. /\ s.order \in Orders /\ s.version \in Versions /\ s.at \in Slots
  BY SnapshotParts
<1>2. PICK r : r = [stored |-> TRUE, at |-> s.at, version |-> s.version,
                    unresolved |-> Unresolved(s) # {}]
  OBVIOUS
<1>3. order' = [order EXCEPT ![o] = r] /\ order \in [Orders -> OrderRows] /\ r \in OrderRows
  <2>1. r \in OrderRows
    BY <1>1, <1>2 DEF OrderRows
  <2>2. QED
    BY <1>2, <2>1 DEF Reconcile, BooksTyped
<1>4. PICK rows : rows = [l \in Lines |-> ItemRow(s, l)]
  OBVIOUS
<1>5. rows \in [Lines -> ItemRows]
  BY <1>4, RowAfter
<1>6. item' = [item EXCEPT ![o] = rows] /\ item \in [Orders -> [Lines -> ItemRows]]
  BY <1>4 DEF Reconcile, BooksTyped
<1>7. PICK trace \in Traces(s) :
        adj' = [adj EXCEPT ![s.order] =
                  [l \in Lines |-> IF l \in DOMAIN s.lines \cup Stored(s.order)
                                   THEN Adjusted(adj[s.order][l], Expected(s, l, trace))
                                   ELSE adj[s.order][l]]]
  BY Zenon DEF Reconcile
<1>8. PICK b : b = [l \in Lines |-> IF l \in DOMAIN s.lines \cup Stored(o)
                                    THEN Adjusted(adj[o][l], Expected(s, l, trace))
                                    ELSE adj[o][l]]
  OBVIOUS
<1>9. adj' = [adj EXCEPT ![o] = b] /\ DOMAIN adj = Orders
  BY <1>7, <1>8 DEF BooksTyped
<1>10. adj[o] \in [Lines -> [Sources -> AdjRows]]
  BY <1>1 DEF BooksTyped
<1>11. b \in [Lines -> [Sources -> AdjRows]]
  <2> SUFFICES ASSUME NEW l \in Lines
               PROVE  b[l] \in [Sources -> AdjRows]
    BY <1>8
  <2>1. adj[o][l] \in [Sources -> AdjRows]
    BY <1>10
  <2>2. Settled(Adjusted(adj[o][l], Expected(s, l, trace)), s, l, trace)
    BY <2>1, AdjustmentsAfter
  <2>3. QED
    BY <1>8, <2>1, <2>2 DEF Settled
<1>12. adj' \in [Orders -> [Lines -> [Sources -> AdjRows]]]
  BY <1>1, <1>9, <1>11 DEF BooksTyped
<1>13. Affected(s) \in SUBSET Days
  <2>1. MaxSlot \in Nat /\ order[o].at \in Slots
    BY <1>1, <1>3 DEF BooksAssumption, OrderRows
  <2>2. QED
    BY <1>1, <2>1, DayOf DEF Affected
<1>14. now' = now /\ open' = TRUE /\ dates' = dates \cup Affected(s) /\ daily' = daily
  BY DEF Reconcile
<1>15. BooksTyped'
  <2>1. order' \in [Orders -> OrderRows] /\ item' \in [Orders -> [Lines -> ItemRows]]
    BY <1>3, <1>5, <1>6
  <2>2. Slots' = Slots /\ now \in Slots /\ dates \in SUBSET Days /\ daily = [d \in Days |-> daily[d]]
    BY DEF BooksTyped
  <2>3. QED
    BY <1>12, <1>13, <1>14, <2>1, <2>2 DEF BooksTyped
<1>16. order'[o] = r /\ r.stored /\ r.at = s.at /\ r.version = s.version
       /\ (r.unresolved <=> Unresolved(s) # {})
  BY <1>1, <1>2, <1>3
<1>17. \A l \in Lines : item'[o][l] = ItemRow(s, l)
  BY <1>1, <1>4, <1>6
<1>18. \A p \in Orders \ {o} : order'[p] = order[p] /\ item'[p] = item[p] /\ adj'[p] = adj[p]
  BY <1>3, <1>6, <1>9
<1>19. \A l \in Lines :
         adj'[o][l] = IF l \in DOMAIN s.lines \cup Stored(o)
                      THEN Adjusted(adj[o][l], Expected(s, l, trace)) ELSE adj[o][l]
  <2>1. adj'[o] = b
    BY <1>1, <1>9
  <2>2. QED
    BY <1>8, <2>1
<1>20. QED
  BY <1>14, <1>15, <1>16, <1>17, <1>18, <1>19

LEMMA ReconcileBooks ==
  ASSUME BooksAssumption, BooksInv, NEW s \in Snapshots, Reconcile(s)
  PROVE  BooksInv'
<1>0. BooksTyped /\ LinesInv /\ UnitsAddUp /\ AdjInv
  BY DEF BooksInv
<1>1. CASE Known(s)
  <2>1. UNCHANGED <<now, order, item, adj, daily, dates>> /\ open' = TRUE
    BY <1>1 DEF Reconcile
  <2>2. BooksTyped'
    BY <1>0, <2>1 DEF BooksTyped
  <2>3. \A o, l : Traced(o, l)' <=> Traced(o, l)
    BY <2>1 DEF Traced
  <2>4. LinesInv' /\ AdjInv'
    BY <1>0, <2>1, <2>3 DEF LinesInv, AdjInv, InForce
  <2>5. UnitsAddUp'
    BY <1>0, <2>1 DEF UnitsAddUp
  <2>6. QED
    BY <2>2, <2>4, <2>5 DEF BooksInv
<1>2. CASE ~Known(s)
  <2>1. PICK o \in Orders : o = s.order
    BY <1>0, SnapshotParts
  <2>2. /\ BooksTyped' /\ order'[o].stored
        /\ order'[o].unresolved <=> Unresolved(s) # {}
        /\ \A l \in Lines : item'[o][l] = ItemRow(s, l)
        /\ \A p \in Orders \ {o} : order'[p] = order[p] /\ item'[p] = item[p] /\ adj'[p] = adj[p]
    BY <1>0, <1>2, <2>1, ReconcileRows
  <2>3. PICK trace \in Traces(s) : \A l \in Lines :
           adj'[o][l] = IF l \in DOMAIN s.lines \cup Stored(o)
                        THEN Adjusted(adj[o][l], Expected(s, l, trace)) ELSE adj[o][l]
    BY <1>0, <1>2, <2>1, ReconcileRows
  <2>4. Unresolved(s) \subseteq Kinds
    BY DEF Unresolved
  <2>5. \A l \in Lines : l \in DOMAIN s.lines \cup Stored(o) <=> item'[o][l].stored
    <3> SUFFICES ASSUME NEW l \in Lines
                 PROVE  l \in DOMAIN s.lines \cup Stored(o) <=> item'[o][l].stored
      OBVIOUS
    <3>1. item'[o][l].stored <=> l \in DOMAIN s.lines \/ item[o][l].stored
      BY <1>0, <2>1, <2>2, RowAfter
    <3>2. l \in Stored(o) <=> item[o][l].stored
      BY DEF Stored
    <3>3. QED
      BY <3>1, <3>2
  <2>6. ASSUME NEW l \in Lines, item'[o][l].stored
        PROVE  /\ \A f \in Confirmable : item'[o][l][f] = InForce(adj'[o][l][<<"confirmed", f>>])
               /\ Traced(o, l)' <=> l = trace /\ Unresolved(s) # {}
    <3>1. PICK a : a = Adjusted(adj[o][l], Expected(s, l, trace)) /\ a = adj'[o][l]
      BY <2>3, <2>5, <2>6
    <3>2. PICK v : v = Division(s)[l]
      OBVIOUS
    <3>3. /\ \A f \in Confirmable : InForce(a[<<"confirmed", f>>]) = v[f]
          /\ \A k \in Kinds : a[<<"unresolved", k>>].status = "unresolved"
                                <=> l = trace /\ k \in Unresolved(s)
      <4>0. adj[o][l] \in [Sources -> AdjRows]
        BY <1>0 DEF BooksTyped
      <4>1. Settled(a, s, l, trace)
        BY <1>0, <3>1, <4>0, AdjustmentsAfter
      <4>2. QED
        BY <3>2, <4>1 DEF Settled
    <3>4. \A f \in Confirmable : item'[o][l][f] = v[f]
      BY <1>0, <2>1, <2>2, <2>6, <3>2, RowAfter
    <3>5. Traced(o, l)' <=> \E k \in Kinds : a[<<"unresolved", k>>].status = "unresolved"
      BY <3>1 DEF Traced
    <3>6. QED
      BY <2>4, <3>1, <3>3, <3>4, <3>5
  <2>7. ASSUME NEW l \in Lines, ~item'[o][l].stored
        PROVE  /\ item'[o][l] = NoItem /\ ~Traced(o, l)'
               /\ \A f \in Confirmable : item'[o][l][f] = InForce(adj'[o][l][<<"confirmed", f>>])
    <3>1. item'[o][l] = NoItem /\ item[o][l] = NoItem
      BY <1>0, <2>1, <2>2, <2>7, RowAfter
    <3>2. adj'[o][l] = adj[o][l]
      BY <2>3, <2>5, <2>7
    <3>3. ~item[o][l].stored
      BY <3>1 DEF NoItem
    <3>4. ~Traced(o, l)
      BY <1>0, <3>3 DEF LinesInv
    <3>5. \A f \in Confirmable : item[o][l][f] = InForce(adj[o][l][<<"confirmed", f>>])
      BY <1>0 DEF AdjInv
    <3>6. QED
      BY <3>1, <3>2, <3>4, <3>5 DEF Traced
  <2>8. ASSUME NEW p \in Orders \ {o}, NEW l \in Lines
        PROVE  item'[p][l] = item[p][l] /\ (Traced(p, l)' <=> Traced(p, l))
    BY <2>2 DEF Traced
  <2>9. LinesInv'
    <3> SUFFICES ASSUME NEW p \in Orders, NEW l \in Lines
                 PROVE  IF item'[p][l].stored THEN order'[p].stored
                        ELSE item'[p][l] = NoItem /\ ~Traced(p, l)'
      BY DEF LinesInv
    <3>1. CASE p = o
      BY <2>2, <2>7, <3>1
    <3>2. CASE p # o
      BY <1>0, <2>2, <2>8, <3>2 DEF LinesInv
    <3>3. QED
      BY <3>1, <3>2
  <2>10. UnitsAddUp'
    <3> SUFFICES ASSUME NEW p \in Orders, NEW l \in Lines, NEW it, it = item'[p][l]
                 PROVE  it.ordered = it.canceled + it.refunded + it.returned + it.effective
      BY DEF UnitsAddUp
    <3>1. CASE p = o
      BY <1>0, <2>1, <2>2, <3>1, RowAfter
    <3>2. CASE p # o
      <4>1. it = item[p][l]
        BY <2>8, <3>2
      <4>2. QED
        BY <1>0, <4>1 DEF UnitsAddUp
    <3>3. QED
      BY <3>1, <3>2
  <2>11. AdjInv'
    <3> SUFFICES ASSUME NEW p \in Orders
                 PROVE  /\ \A l \in Lines, f \in Confirmable :
                             item'[p][l][f] = InForce(adj'[p][l][<<"confirmed", f>>])
                        /\ \A l, m \in Lines : Traced(p, l)' /\ Traced(p, m)' => l = m
                        /\ (\E l \in Lines : item'[p][l].stored) =>
                             (order'[p].unresolved <=> \E l \in Lines : Traced(p, l)')
      BY DEF AdjInv, InForce
    <3>1. CASE p = o
      <4>1. \A l \in Lines, f \in Confirmable :
              item'[o][l][f] = InForce(adj'[o][l][<<"confirmed", f>>])
        BY <2>6, <2>7
      <4>2. \A l \in Lines : Traced(o, l)' => l = trace /\ Unresolved(s) # {}
        BY <2>6, <2>7
      <4>3. (\E l \in Lines : item'[o][l].stored) => trace \in Lines /\ item'[o][trace].stored
        <5>1. (\E l \in Lines : item'[o][l].stored) => DOMAIN s.lines # {} \/ Stored(o) # {}
          BY <2>5
        <5>2. DOMAIN s.lines \subseteq Lines /\ Stored(o) \subseteq Lines
          BY <1>0, SnapshotParts DEF Stored
        <5>3. DOMAIN s.lines # {} \/ Stored(o) # {} => trace \in DOMAIN s.lines \cup Stored(o)
          BY <2>1, <2>3 DEF Traces
        <5>4. QED
          BY <2>5, <5>1, <5>2, <5>3
      <4>4. (\E l \in Lines : item'[o][l].stored) =>
              (order'[o].unresolved <=> \E l \in Lines : Traced(o, l)')
        BY <2>2, <2>6, <4>2, <4>3
      <4>5. QED
        BY <3>1, <4>1, <4>2, <4>4
    <3>2. CASE p # o
      <4>1. item'[p] = item[p] /\ adj'[p] = adj[p] /\ order'[p] = order[p]
        BY <2>2, <3>2
      <4>2. \A l \in Lines : Traced(p, l)' <=> Traced(p, l)
        BY <2>8, <3>2
      <4>3. QED
        BY <1>0, <4>1, <4>2 DEF AdjInv
    <3>3. QED
      BY <3>1, <3>2
  <2>12. QED
    BY <2>2, <2>9, <2>10, <2>11 DEF BooksInv
<1>3. QED
  BY <1>1, <1>2

LEMMA ReconcileDaily ==
  ASSUME BooksAssumption, WholeMoves = TRUE, DailyInv, NEW s \in Snapshots, Reconcile(s)
  PROVE  DatesInv' /\ SalesInv'
<1>0. BooksTyped /\ LinesInv /\ DatesInv /\ SalesInv
  BY DEF DailyInv, BooksInv
<1>1. open' = TRUE
  BY DEF Reconcile
<1>2. CASE Known(s)
  <2>1. UNCHANGED <<now, order, item, daily, dates>>
    BY <1>2 DEF Reconcile
  <2>2. \A d : SalesOf(item, d)' = SalesOf(item, d)
    BY <2>1 DEF SalesOf, Sold
  <2>3. Between(dates)' = Between(dates)
    BY <2>1 DEF Between
  <2>4. QED
    BY <1>0, <1>1, <2>1, <2>2, <2>3 DEF DatesInv, SalesInv
<1>3. CASE ~Known(s)
  <2>1. PICK o \in Orders : o = s.order
    BY <1>0, SnapshotParts
  <2>2. /\ order'[o].at = s.at
        /\ \A l \in Lines : item'[o][l] = ItemRow(s, l)
        /\ \A p \in Orders \ {o} : order'[p] = order[p] /\ item'[p] = item[p]
        /\ dates' = dates \cup Affected(s)
        /\ daily' = daily
        /\ BooksTyped'
    BY <1>0, <1>3, <2>1, ReconcileRows
  <2>3. order[o].stored /\ s.at # order[o].at => Stored(o) \subseteq DOMAIN s.lines
    BY <2>1 DEF Reconcile
  <2>4. ASSUME NEW l \in Lines, item'[o][l].stored
        PROVE  item'[o][l].at = s.at
    <3>1. CASE l \in DOMAIN s.lines
      BY <1>0, <2>1, <2>2, <3>1, RowAfter
    <3>2. CASE l \notin DOMAIN s.lines
      <4>1. item'[o][l].at = item[o][l].at /\ item[o][l].stored
        BY <1>0, <2>1, <2>2, <2>4, <3>2, RowAfter
      <4>2. item[o][l].at = order[o].at /\ order[o].stored
        BY <1>0, <4>1 DEF DatesInv, LinesInv
      <4>3. l \in Stored(o)
        BY <4>1 DEF Stored
      <4>4. QED
        BY <2>3, <3>2, <4>1, <4>2, <4>3
    <3>3. QED
      BY <3>1, <3>2
  <2>5. DatesInv'
    <3> SUFFICES ASSUME NEW p \in Orders, NEW l \in Lines, item'[p][l].stored
                 PROVE  item'[p][l].at = order'[p].at
      BY DEF DatesInv
    <3>1. CASE p = o
      BY <2>2, <2>4, <3>1
    <3>2. CASE p # o
      BY <1>0, <2>2, <3>2 DEF DatesInv
    <3>3. QED
      BY <3>1, <3>2
  <2>6. ASSUME NEW d \in Days, d \notin Between(dates')
        PROVE  daily'[d] = SalesOf(item, d)'
    <3>1. dates \subseteq dates' /\ dates' \in SUBSET Days
      BY <2>2 DEF BooksTyped
    <3>2. d \notin Between(dates) /\ d \notin dates'
      <4>1. d \notin Between(dates)
        BY <2>6, <3>1 DEF Between
      <4>2. QED
        BY <2>6, <3>1, <4>1, Inside
    <3>3. d # Day(s.at) /\ (order[o].stored => d # Day(order[o].at))
      BY <2>1, <2>2, <3>2 DEF Affected
    <3>4. ASSUME NEW l \in Lines
          PROVE  ~Shows(item, o, l, d) /\ ~Shows(item', o, l, d)
      <4>1. ~Shows(item, o, l, d)
        BY <1>0, <3>3 DEF Shows, DatesInv, LinesInv
      <4>2. ~Shows(item', o, l, d)
        BY <2>4, <3>3 DEF Shows
      <4>3. QED
        BY <4>1, <4>2
    <3>5. \A p \in Orders, l \in Lines :
            /\ Shows(item, p, l, d) <=> Shows(item', p, l, d)
            /\ Shows(item, p, l, d) => item[p][l] = item'[p][l]
      <4> SUFFICES ASSUME NEW p \in Orders, NEW l \in Lines
                   PROVE  /\ Shows(item, p, l, d) <=> Shows(item', p, l, d)
                          /\ Shows(item, p, l, d) => item[p][l] = item'[p][l]
        OBVIOUS
      <4>1. CASE p = o
        BY <3>4, <4>1
      <4>2. CASE p # o
        <5>1. item'[p][l] = item[p][l]
          BY <2>2, <4>2
        <5>2. QED
          BY <5>1 DEF Shows
      <4>3. QED
        BY <4>1, <4>2
    <3>6. SalesOf(item, d) = SalesOf(item', d)
      BY <3>5, SameSales
    <3>7. daily[d] = SalesOf(item, d)
      BY <1>0, <3>2 DEF SalesInv
    <3>8. QED
      BY <2>2, <3>6, <3>7
  <2>7. SalesInv'
    <3>1. Days' = Days /\ Between(dates)' = Between(dates')
      BY DEF Between
    <3>2. QED
      BY <1>1, <2>6, <3>1 DEF SalesInv
  <2>8. QED
    BY <2>5, <2>7
<1>4. QED
  BY <1>2, <1>3

-----------------------------------------------------------------------------
(* A transaction ends: expired orders go, and the days it has touched are   *)
(* rebuilt. *)

LEMMA FinishRows ==
  ASSUME BooksAssumption, BooksTyped, Finish, NEW o \in Orders
  PROVE  /\ ~Expired(o) => order'[o] = order[o] /\ item'[o] = item[o] /\ adj'[o] = adj[o]
         /\ Expired(o) => order'[o] = NoOrder /\ item'[o] = [l \in Lines |-> NoItem] /\ adj'[o] = NoAdjs
BY DEF Finish

LEMMA NoneInForce ==
  ASSUME NEW a, \A src \in Sources : a[src].status = "none"
  PROVE  /\ \A f \in Confirmable : InForce(a[<<"confirmed", f>>]) = 0
         /\ \A k \in Kinds : a[<<"unresolved", k>>].status # "unresolved"
<1>1. ASSUME NEW f \in Confirmable
      PROVE  InForce(a[<<"confirmed", f>>]) = 0
  <2>1. PICK src \in Sources : src = <<"confirmed", f>>
    BY DEF Confirmable, Sources
  <2>2. a[src].status = "none"
    OBVIOUS
  <2>3. QED
    BY <2>1, <2>2 DEF InForce
<1>2. ASSUME NEW k \in Kinds
      PROVE  a[<<"unresolved", k>>].status # "unresolved"
  <2>1. PICK src \in Sources : src = <<"unresolved", k>>
    BY DEF Sources
  <2>2. a[src].status = "none"
    OBVIOUS
  <2>3. QED
    BY <2>1, <2>2
<1>3. QED
  BY <1>1, <1>2

LEMMA FinishBooks ==
  ASSUME BooksAssumption, BooksInv, Finish
  PROVE  BooksInv'
<1>0. BooksTyped /\ LinesInv /\ UnitsAddUp /\ AdjInv
  BY DEF BooksInv
<1>1. 0 \in Slots /\ NoOrder \in OrderRows /\ NoItem \in ItemRows /\ ~NoItem.stored
  BY DEF BooksAssumption, Slots, NoOrder, OrderRows, NoItem, ItemRows
<1>2. NoAdjs \in [Lines -> [Sources -> AdjRows]]
  BY DEF NoAdjs, NoAdj, AdjRows
<1>3. ASSUME NEW l \in Lines
      PROVE  \A src \in Sources : NoAdjs[l][src].status = "none"
  BY DEF NoAdjs, NoAdj
<1>4. ASSUME NEW l \in Lines
      PROVE  /\ \A f \in Confirmable : InForce(NoAdjs[l][<<"confirmed", f>>]) = 0
             /\ \A k \in Kinds : NoAdjs[l][<<"unresolved", k>>].status # "unresolved"
  BY <1>3, NoneInForce
<1>5. ASSUME NEW o \in Orders, Expired(o), NEW l \in Lines
      PROVE  /\ item'[o][l] = NoItem /\ ~Traced(o, l)'
             /\ \A f \in Confirmable : item'[o][l][f] = InForce(adj'[o][l][<<"confirmed", f>>])
  <2>1. item'[o][l] = NoItem /\ adj'[o] = NoAdjs
    BY <1>0, <1>5, FinishRows
  <2>2. \A f \in Confirmable : NoItem[f] = 0
    BY DEF NoItem, Confirmable
  <2>3. ~Traced(o, l)'
    BY <1>4, <2>1 DEF Traced
  <2>4. QED
    BY <1>4, <2>1, <2>2, <2>3
<1>6. ASSUME NEW o \in Orders, ~Expired(o)
      PROVE  order'[o] = order[o] /\ item'[o] = item[o] /\ adj'[o] = adj[o]
             /\ \A l \in Lines : Traced(o, l)' <=> Traced(o, l)
  <2>1. order'[o] = order[o] /\ item'[o] = item[o] /\ adj'[o] = adj[o]
    BY <1>0, <1>6, FinishRows
  <2>2. QED
    BY <2>1 DEF Traced
<1>7. BooksTyped'
  <2>1. ASSUME NEW o \in Orders
        PROVE  /\ order'[o] \in OrderRows /\ item'[o] \in [Lines -> ItemRows]
               /\ adj'[o] \in [Lines -> [Sources -> AdjRows]]
    <3>1. CASE Expired(o)
      <4>1. order'[o] = NoOrder /\ item'[o] = [l \in Lines |-> NoItem] /\ adj'[o] = NoAdjs
        BY <1>0, <3>1, FinishRows
      <4>2. QED
        BY <1>1, <1>2, <4>1
    <3>2. CASE ~Expired(o)
      <4>1. order[o] \in OrderRows /\ item[o] \in [Lines -> ItemRows]
            /\ adj[o] \in [Lines -> [Sources -> AdjRows]]
        BY <1>0 DEF BooksTyped
      <4>2. QED
        BY <1>6, <3>2, <4>1
    <3>3. QED
      BY <3>1, <3>2
  <2>2. /\ order' = [o \in Orders |-> order'[o]] /\ item' = [o \in Orders |-> item'[o]]
        /\ adj' = [o \in Orders |-> adj'[o]] /\ daily' = [d \in Days |-> daily'[d]]
        /\ now' = now /\ open' = FALSE /\ dates' = {}
    BY DEF Finish
  <2>3. order' \in [Orders -> OrderRows] /\ item' \in [Orders -> [Lines -> ItemRows]]
    BY <2>1, <2>2
  <2>4. adj' \in [Orders -> [Lines -> [Sources -> AdjRows]]]
    BY <2>1, <2>2
  <2>5. now' \in Slots /\ open' \in BOOLEAN /\ dates' \in SUBSET Days
    BY <1>0, <2>2 DEF BooksTyped
  <2>6. QED
    BY <2>2, <2>3, <2>4, <2>5 DEF BooksTyped
<1>8. LinesInv'
  <2> SUFFICES ASSUME NEW o \in Orders, NEW l \in Lines
               PROVE  IF item'[o][l].stored THEN order'[o].stored
                      ELSE item'[o][l] = NoItem /\ ~Traced(o, l)'
    BY DEF LinesInv
  <2>1. CASE Expired(o)
    BY <1>1, <1>5, <2>1
  <2>2. CASE ~Expired(o)
    BY <1>0, <1>6, <2>2 DEF LinesInv
  <2>3. QED
    BY <2>1, <2>2
<1>9. UnitsAddUp'
  <2> SUFFICES ASSUME NEW o \in Orders, NEW l \in Lines, NEW it, it = item'[o][l]
               PROVE  it.ordered = it.canceled + it.refunded + it.returned + it.effective
    BY DEF UnitsAddUp
  <2>1. CASE Expired(o)
    BY <1>5, <2>1 DEF NoItem
  <2>2. CASE ~Expired(o)
    <3>1. it = item[o][l]
      BY <1>6, <2>2
    <3>2. QED
      BY <1>0, <3>1 DEF UnitsAddUp
  <2>3. QED
    BY <2>1, <2>2
<1>10. AdjInv'
  <2> SUFFICES ASSUME NEW o \in Orders
               PROVE  /\ \A l \in Lines, f \in Confirmable :
                           item'[o][l][f] = InForce(adj'[o][l][<<"confirmed", f>>])
                      /\ \A l, m \in Lines : Traced(o, l)' /\ Traced(o, m)' => l = m
                      /\ (\E l \in Lines : item'[o][l].stored) =>
                           (order'[o].unresolved <=> \E l \in Lines : Traced(o, l)')
    BY DEF AdjInv, InForce
  <2>1. CASE Expired(o)
    BY <1>1, <1>5, <2>1
  <2>2. CASE ~Expired(o)
    BY <1>0, <1>6, <2>2 DEF AdjInv
  <2>3. QED
    BY <2>1, <2>2
<1>11. QED
  BY <1>7, <1>8, <1>9, <1>10 DEF BooksInv

LEMMA FinishDaily ==
  ASSUME BooksAssumption, DailyInv, Finish
  PROVE  DatesInv' /\ SalesInv'
<1>0. BooksTyped /\ LinesInv /\ DatesInv /\ SalesInv
  BY DEF DailyInv, BooksInv
<1>1. open' = FALSE /\ dates' = {}
  BY DEF Finish
<1>2. Cutoff \in Int
  BY <1>0 DEF BooksTyped, Slots, BooksAssumption, Cutoff
<1>3. ASSUME NEW o \in Orders, NEW l \in Lines, item'[o][l].stored
      PROVE  ~Expired(o) /\ item'[o] = item[o] /\ order'[o] = order[o]
  <2>1. Expired(o) => item'[o][l] = NoItem
    BY <1>0, FinishRows
  <2>2. ~Expired(o)
    BY <1>3, <2>1 DEF NoItem
  <2>3. QED
    BY <1>0, <2>2, FinishRows
<1>4. DatesInv'
  BY <1>0, <1>3 DEF DatesInv
<1>5. ASSUME NEW o \in Orders, NEW l \in Lines, item[o][l].stored
      PROVE  /\ item[o][l].at \in Int
             /\ Expired(o) <=> item[o][l].at < Cutoff
             /\ ~Expired(o) => item'[o] = item[o]
  <2>1. order[o].stored /\ item[o][l].at = order[o].at /\ item[o][l] \in ItemRows
    BY <1>0, <1>5 DEF DatesInv, LinesInv, BooksTyped
  <2>2. item[o][l].at \in Int
    BY <2>1 DEF ItemRows, Slots
  <2>3. QED
    BY <1>0, <2>1, <2>2, FinishRows DEF Expired
<1>6. ASSUME NEW d \in Days, Cutoff >= 0 => Day(Cutoff) < d
      PROVE  SalesOf(item', d) = SalesOf(item, d)
  <2>1. ASSUME NEW o \in Orders, NEW l \in Lines, Shows(item, o, l, d)
        PROVE  item'[o] = item[o]
    <3>1. item[o][l].stored /\ Day(item[o][l].at) = d /\ item[o][l].at \in Int
          /\ item[o][l].at >= 0
      BY <1>0, <1>5, <2>1 DEF Shows, BooksTyped, ItemRows, Slots
    <3>2. Cutoff >= 0 => Cutoff < item[o][l].at
      BY <1>2, <1>6, <3>1, DayOrder
    <3>3. ~(item[o][l].at < Cutoff)
      BY <1>2, <3>1, <3>2
    <3>4. QED
      BY <1>5, <3>1, <3>3
  <2>2. ASSUME NEW o \in Orders, NEW l \in Lines, Shows(item', o, l, d)
        PROVE  item'[o] = item[o]
    BY <1>3, <2>2 DEF Shows
  <2>3. \A o \in Orders, l \in Lines : Shows(item', o, l, d) <=> Shows(item, o, l, d)
    BY <2>1, <2>2 DEF Shows
  <2>4. \A o \in Orders, l \in Lines : Shows(item', o, l, d) => item'[o][l] = item[o][l]
    BY <2>2
  <2>5. QED
    BY <2>3, <2>4, SameSales
<1>7. ASSUME NEW d \in Days, Cutoff >= 0, d < Day(Cutoff)
      PROVE  SalesOf(item', d) = NoSales
  <2>1. ASSUME NEW o \in Orders, NEW l \in Lines, Shows(item', o, l, d)
        PROVE  FALSE
    <3>1. item'[o][l].stored /\ Day(item'[o][l].at) = d
      BY <2>1 DEF Shows
    <3>2. ~Expired(o) /\ item'[o] = item[o]
      BY <1>3, <3>1
    <3>3. item[o][l].stored /\ Day(item[o][l].at) = d /\ item[o][l].at \in Int
      BY <1>5, <3>1, <3>2
    <3>4. item[o][l].at < Cutoff
      BY <1>2, <1>7, <3>3, DayOrder
    <3>5. QED
      BY <1>5, <3>2, <3>3, <3>4
  <2>2. QED
    BY <2>1, NoRowsNoSales
<1>8. ASSUME NEW d \in Days
      PROVE  daily'[d] = SalesOf(item', d)
  <2>1. daily'[d] = IF Cutoff >= 0 /\ d < Day(Cutoff) THEN NoSales
                    ELSE IF Cutoff >= 0 /\ d = Day(Cutoff) THEN SalesOf(item', d)
                    ELSE IF d \in Between(dates) THEN SalesOf(item, d)
                    ELSE daily[d]
    BY DEF Finish
  <2>2. d \in Int /\ Day(Cutoff) \in Int
    BY <1>2 DEF Days, Day
  <2>3. CASE Cutoff >= 0 /\ d < Day(Cutoff)
    BY <1>7, <2>1, <2>3
  <2>4. CASE Cutoff >= 0 /\ d = Day(Cutoff)
    BY <2>1, <2>2, <2>4
  <2>5. CASE Cutoff >= 0 => Day(Cutoff) < d
    <3>1. SalesOf(item', d) = SalesOf(item, d)
      BY <1>6, <2>5
    <3>2. d \notin Between(dates) => daily[d] = SalesOf(item, d)
      BY <1>0 DEF SalesInv
    <3>3. QED
      BY <2>1, <2>2, <2>5, <3>1, <3>2
  <2>6. QED
    BY <2>2, <2>3, <2>4, <2>5
<1>9. SalesInv'
  <2>1. \A d \in Days : daily'[d] = SalesOf(item, d)'
    BY <1>8
  <2>2. QED
    BY <1>1, <2>1 DEF SalesInv
<1>10. QED
  BY <1>4, <1>9

-----------------------------------------------------------------------------
(* The invariants. *)

LEMMA InitBooks ==
  ASSUME BooksAssumption, BooksInit
  PROVE  DailyInv
<1>1. 0 \in Slots /\ NoOrder \in OrderRows /\ NoItem \in ItemRows /\ ~NoItem.stored
  BY DEF BooksAssumption, Slots, NoOrder, OrderRows, NoItem, ItemRows
<1>2. \A o \in Orders, l \in Lines : item[o][l] = NoItem
  BY DEF BooksInit
<1>3. adj = [o \in Orders |-> [l \in Lines |-> [src \in Sources |-> NoAdj]]]
  BY DEF BooksInit, NoAdjs
<1>4. adj \in [Orders -> [Lines -> [Sources -> AdjRows]]]
  BY <1>3 DEF NoAdj, AdjRows
<1>5. \A o \in Orders, l \in Lines, src \in Sources : adj[o][l][src].status = "none"
  BY <1>3 DEF NoAdj
<1>6. ASSUME NEW o \in Orders, NEW l \in Lines
      PROVE  /\ \A f \in Confirmable : InForce(adj[o][l][<<"confirmed", f>>]) = 0
             /\ \A k \in Kinds : adj[o][l][<<"unresolved", k>>].status # "unresolved"
  BY <1>5, NoneInForce
<1>7. \A o \in Orders, l \in Lines : ~Traced(o, l)
  BY <1>6 DEF Traced
<1>8. BooksTyped
  <2>1. order \in [Orders -> OrderRows] /\ item \in [Orders -> [Lines -> ItemRows]]
        /\ now \in Slots /\ open \in BOOLEAN /\ dates \in SUBSET Days
        /\ daily = [d \in Days |-> daily[d]]
    BY <1>1 DEF BooksInit
  <2>2. QED
    BY <1>4, <2>1 DEF BooksTyped
<1>9. LinesInv
  BY <1>1, <1>2, <1>7 DEF LinesInv
<1>10. UnitsAddUp
  BY <1>2 DEF UnitsAddUp, NoItem
<1>11. AdjInv
  <2>1. \A f \in Confirmable : NoItem[f] = 0
    BY DEF NoItem, Confirmable
  <2>2. QED
    BY <1>1, <1>2, <1>6, <1>7, <2>1 DEF AdjInv
<1>12. DatesInv
  BY <1>1, <1>2 DEF DatesInv
<1>13. SalesInv
  <2>1. ASSUME NEW d \in Days
        PROVE  daily[d] = SalesOf(item, d)
    <3>1. daily[d] = NoSales
      BY DEF BooksInit
    <3>2. \A o \in Orders, l \in Lines : ~Shows(item, o, l, d)
      BY <1>1, <1>2 DEF Shows
    <3>3. QED
      BY <3>1, <3>2, NoRowsNoSales
  <2>2. dates = {}
    BY DEF BooksInit
  <2>3. QED
    BY <2>1, <2>2 DEF SalesInv
<1>14. QED
  BY <1>8, <1>9, <1>10, <1>11, <1>12, <1>13 DEF DailyInv, BooksInv

LEMMA BooksUnchanged ==
  ASSUME BooksAssumption, BooksInv, TimePasses \/ UNCHANGED bookVars
  PROVE  BooksInv' /\ (DailyInv => DailyInv')
<1>1. /\ UNCHANGED <<order, item, adj, daily, open, dates>>
      /\ now' \in Slots
  BY DEF TimePasses, bookVars, BooksInv, BooksTyped, Slots, BooksAssumption
<1>2. BooksTyped'
  BY <1>1 DEF BooksInv, BooksTyped
<1>3. \A o, l : Traced(o, l)' <=> Traced(o, l)
  BY <1>1 DEF Traced
<1>4. LinesInv' /\ AdjInv'
  BY <1>1, <1>3 DEF BooksInv, LinesInv, AdjInv, InForce
<1>5. UnitsAddUp'
  BY <1>1 DEF BooksInv, UnitsAddUp
<1>6. BooksInv'
  BY <1>2, <1>4, <1>5 DEF BooksInv
<1>7. ASSUME DailyInv
      PROVE  DailyInv'
  <2>1. DatesInv'
    BY <1>1, <1>7 DEF DailyInv, DatesInv
  <2>2. \A d : SalesOf(item, d)' = SalesOf(item, d)
    BY <1>1 DEF SalesOf, Sold
  <2>3. Between(dates)' = Between(dates)
    BY <1>1 DEF Between
  <2>4. SalesInv'
    BY <1>1, <1>7, <2>2, <2>3 DEF DailyInv, SalesInv
  <2>5. QED
    BY <1>6, <2>1, <2>4 DEF DailyInv
<1>8. QED
  BY <1>6, <1>7

LEMMA BooksHold ==
  ASSUME BooksAssumption
  PROVE  BooksSpec => []BooksInv
<1>1. BooksInit => BooksInv
  BY InitBooks DEF DailyInv
<1>2. BooksInv /\ [BooksNext]_bookVars => BooksInv'
  <2> SUFFICES ASSUME BooksInv, [BooksNext]_bookVars
               PROVE  BooksInv'
    OBVIOUS
  <2>1. CASE Finish
    BY <2>1, FinishBooks
  <2>2. CASE TimePasses \/ UNCHANGED bookVars
    BY <2>2, BooksUnchanged
  <2>3. ASSUME NEW s \in Snapshots, Reconcile(s) PROVE BooksInv'
    BY <2>3, ReconcileBooks
  <2>4. QED
    BY <2>1, <2>2, <2>3 DEF BooksNext
<1>3. QED
  BY <1>1, <1>2, PTL DEF BooksSpec

LEMMA AdjustmentsFromInv ==
  ASSUME BooksTyped, AdjInv
  PROVE  AdjustmentsAgree
<1> SUFFICES ASSUME NEW o \in Orders, NEW traced,
                    traced = {l \in Lines : \E k \in Kinds :
                                adj[o][l][<<"unresolved", k>>].status = "unresolved"}
             PROVE  /\ \A l \in Lines, f \in {"canceled", "refunded", "returned"} :
                         item[o][l][f] = LET row == adj[o][l][<<"confirmed", f>>]
                                         IN IF row.status = "confirmed" THEN row.units ELSE 0
                    /\ Cardinality(traced) <= 1
                    /\ Stored(o) # {} => (order[o].unresolved <=> traced # {})
  BY DEF AdjustmentsAgree
<1>1. traced = {l \in Lines : Traced(o, l)}
  BY DEF Traced
<1>2. \A l, m \in traced : l = m
  BY <1>1 DEF AdjInv
<1>3. Cardinality(traced) <= 1
  <2>1. CASE traced = {}
    BY <2>1, FS_EmptySet
  <2>2. CASE traced # {}
    <3>1. PICK l : traced = {l}
      BY <1>2, <2>2
    <3>2. Cardinality({l}) = 1
      BY FS_Singleton
    <3>3. Cardinality(traced) = 1
      BY <3>1, <3>2, Zenon
    <3>4. QED
      BY <3>3
  <2>3. QED
    BY <2>1, <2>2
<1>4. \A l \in Lines, f \in {"canceled", "refunded", "returned"} :
        item[o][l][f] = LET row == adj[o][l][<<"confirmed", f>>]
                        IN IF row.status = "confirmed" THEN row.units ELSE 0
  BY DEF AdjInv, InForce, Confirmable
<1>5. Stored(o) # {} => (order[o].unresolved <=> traced # {})
  BY <1>1 DEF AdjInv, Stored
<1>6. QED
  BY <1>3, <1>4, <1>5

(* The stored orders, their lines, adjustments and days keep their types.   *)
THEOREM BooksTyping ==
  ASSUME BooksAssumption
  PROVE  BooksSpec => []BooksTypeOK
<1>1. BooksInv => BooksTypeOK
  <2> SUFFICES ASSUME BooksTyped
               PROVE  BooksTypeOK
    BY DEF BooksInv
  <2>1. \A o \in Orders, l \in Lines :
          /\ item[o][l].stored \in BOOLEAN /\ item[o][l].at \in Slots
          /\ \A f \in Sums : item[o][l][f] \in Nat
    <3> SUFFICES ASSUME NEW o \in Orders, NEW l \in Lines, NEW it \in ItemRows, it = item[o][l]
                 PROVE  it.stored \in BOOLEAN /\ it.at \in Slots /\ \A f \in Sums : it[f] \in Nat
      BY DEF BooksTyped
    <3>1. QED
      BY DEF ItemRows, Sums
  <2>2. QED
    BY <2>1 DEF BooksTyped, BooksTypeOK, OrderRows, AdjRows
<1>2. QED
  BY <1>1, BooksHold, PTL

(* sync_owned_store, derive_adjustments, _reconcile_item_adjustments: for   *)
(* every number of orders and lines, and whatever snapshots come in         *)
(* whatever order, the units of a line add up and its adjustments in force  *)
(* are those of its columns, with what is unresolved on one line.           *)
THEOREM LinesAgree ==
  ASSUME BooksAssumption
  PROVE  BooksSpec => [](UnitsAddUp /\ AdjustmentsAgree)
<1>1. BooksInv => UnitsAddUp /\ AdjustmentsAgree
  BY AdjustmentsFromInv DEF BooksInv
<1>2. QED
  BY <1>1, BooksHold, PTL

(* rebuild_daily_sales, prune_expired_sales_data: if moreover an order      *)
(* whose date changes lists all its lines, the daily sales of every day are *)
(* between two syncs those of the lines stored for it.                      *)
THEOREM BooksAreRight ==
  ASSUME BooksAssumption, WholeMoves = TRUE
  PROVE  BooksSpec => []BooksAgree
<1>1. BooksInit => DailyInv
  BY InitBooks
<1>2. DailyInv /\ [BooksNext]_bookVars => DailyInv'
  <2> SUFFICES ASSUME DailyInv, [BooksNext]_bookVars
               PROVE  DailyInv'
    OBVIOUS
  <2>0. BooksInv
    BY DEF DailyInv
  <2>1. CASE Finish
    <3>1. BooksInv' /\ DatesInv' /\ SalesInv'
      BY <2>0, <2>1, FinishBooks, FinishDaily
    <3>2. QED
      BY <3>1 DEF DailyInv
  <2>2. CASE TimePasses \/ UNCHANGED bookVars
    BY <2>0, <2>2, BooksUnchanged
  <2>3. ASSUME NEW s \in Snapshots, Reconcile(s)
        PROVE  DailyInv'
    <3>1. BooksInv' /\ DatesInv' /\ SalesInv'
      BY <2>0, <2>3, ReconcileBooks, ReconcileDaily
    <3>2. QED
      BY <3>1 DEF DailyInv
  <2>4. QED
    BY <2>1, <2>2, <2>3 DEF BooksNext
<1>3. DailyInv => BooksAgree
  <2> SUFFICES ASSUME DailyInv
               PROVE  BooksAgree
    OBVIOUS
  <2>1. UnitsAddUp /\ AdjustmentsAgree
    BY AdjustmentsFromInv DEF DailyInv, BooksInv
  <2>2. ASSUME ~open, NEW d \in Days
        PROVE  daily[d] = SalesOf(item, d)
    <3>1. Between(dates) = {}
      BY <2>2 DEF DailyInv, SalesInv, Between
    <3>2. QED
      BY <3>1 DEF DailyInv, SalesInv
  <2>3. QED
    BY <2>1, <2>2 DEF BooksAgree, DailyAgrees
<1>4. QED
  BY <1>1, <1>2, <1>3, PTL DEF BooksSpec

(* _reconcile_order_snapshot: a stored order never goes back to an older    *)
(* state, the same version changes nothing, and the units first ordered     *)
(* stay what they were, whatever snapshots come in whatever order.          *)
THEOREM NeverBack ==
  ASSUME BooksAssumption
  PROVE  BooksSpec => SnapshotsNeverOlder
<1>1. BooksInv /\ [BooksNext]_bookVars => [Newer]_bookVars
  <2> SUFFICES ASSUME BooksInv, BooksNext
               PROVE  Newer
    OBVIOUS
  <2>0. BooksTyped /\ LinesInv
    BY DEF BooksInv
  <2>1. \A o \in Orders : order[o].version \in Nat
    BY <2>0 DEF BooksTyped, OrderRows, BooksAssumption
  <2>2. ASSUME NEW o \in Orders, UNCHANGED <<order[o], item[o], adj[o]>>
        PROVE  /\ order[o].version <= order'[o].version
               /\ \A l \in Stored(o) : item'[o][l].ordered = item[o][l].ordered
               /\ order[o].version # 0 /\ order'[o].version = order[o].version =>
                    UNCHANGED <<order[o], item[o], adj[o]>>
    BY <2>1, <2>2
  <2>3. CASE Finish
    <3> SUFFICES ASSUME NEW o \in Orders, order'[o].stored
                 PROVE  UNCHANGED <<order[o], item[o], adj[o]>>
      BY <2>2 DEF Newer
    <3>1. ~Expired(o)
      BY <2>0, <2>3, FinishRows DEF NoOrder
    <3>2. QED
      BY <2>0, <2>3, <3>1, FinishRows
  <2>4. CASE TimePasses
    BY <2>2, <2>4 DEF TimePasses, Newer
  <2>5. ASSUME NEW s \in Snapshots, Reconcile(s)
        PROVE  Newer
    <3>1. CASE Known(s)
      <4>1. UNCHANGED <<order, item, adj>>
        BY <2>5, <3>1 DEF Reconcile
      <4>2. QED
        BY <2>2, <4>1 DEF Newer
    <3>2. CASE ~Known(s)
      <4>1. PICK o \in Orders : o = s.order
        BY <2>0, SnapshotParts
      <4>2. /\ order'[o].version = s.version /\ s.version \in Nat
            /\ \A l \in Lines : item'[o][l] = ItemRow(s, l)
            /\ \A p \in Orders \ {o} : order'[p] = order[p] /\ item'[p] = item[p] /\ adj'[p] = adj[p]
        BY <2>0, <2>5, <3>2, <4>1, ReconcileRows, SnapshotParts
      <4>3. order[o].version = 0 \/ order[o].version < s.version
        BY <2>1, <3>2, <4>1, <4>2 DEF Known
      <4>4. \A l \in Stored(o) : item'[o][l].ordered = item[o][l].ordered
        BY <2>0, <4>1, <4>2, RowAfter DEF Stored
      <4>5. QED
        BY <2>1, <2>2, <4>2, <4>3, <4>4 DEF Newer
    <3>3. QED
      BY <3>1, <3>2
  <2>6. QED
    BY <2>3, <2>4, <2>5 DEF BooksNext
<1>2. QED
  BY <1>1, BooksHold, PTL DEF BooksSpec, SnapshotsNeverOlder
=============================================================================
