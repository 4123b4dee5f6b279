-------------------------- MODULE UserStatusProofs --------------------------
(***************************************************************************)
(* Proofs about UserStatus for any number of callers, overlays, requests,  *)
(* calls and failures, any durations, and a clock without a bound.         *)
(***************************************************************************)
EXTENDS UserStatus, TLAPS

USE DEF reading, promise

-----------------------------------------------------------------------------
(* Type correctness.                                                        *)

\* A table after one that is well typed.
LEMMA WithoutType ==
    ASSUME rows \in [Ids -> Row \cup {None}], NEW ids
    PROVE  Without(ids) \in [Ids -> Row \cup {None}]
  BY DEF Without

LEMMA SetExpiryType ==
    ASSUME TypeOK, NEW c \in Callers, end[c] # None
    PROVE  SetExpiry(c) \in [Ids -> Row \cup {None}]
  <1>1. CASE rows[Base] = None
    BY <1>1 DEF SetExpiry, TypeOK
  <1>2. CASE rows[Base] # None
    <2>1. rows[Base] \in Row /\ end[c] \in Nat
      BY <1>2 DEF TypeOK, Ids
    <2>2. [rows[Base] EXCEPT !.expiry = end[c]] \in Row
      BY <2>1 DEF Row
    <2> QED
      BY <1>2, <2>2 DEF SetExpiry, TypeOK
  <1> QED
    BY <1>1, <1>2

\* The clock and the table of a step are those Becomes is given.
LEMMA BecomesType ==
    ASSUME NEW new \in [Ids -> Row \cup {None}], NEW t \in Nat, Becomes(new, t)
    PROVE  rows' \in [Ids -> Row \cup {None}] /\ now' \in Nat /\ alone' \in BOOLEAN
  BY DEF Becomes

\* The row a caller has in hand.
LEMMA StatusType ==
    ASSUME TypeOK, NEW c \in Callers, pc[c] \in {"latest", "upsert"}
    PROVE  /\ status[c] \in Written
           /\ status[c].id \in Ids /\ status[c].row \in Row
  BY DEF TypeOK, Written

LEMMA WriteType ==
    ASSUME TypeOK, NEW c \in Callers, Write(c),
           sweeps' \subseteq Nat \X Nat, faults' \in Nat
    PROVE  TypeOK'
  <1> DEFINE row == [status[c].row EXCEPT !.stamp = stamp + 1]
             new == [rows EXCEPT ![status[c].id] = row]
  <1>1. pc[c] = "upsert" /\ Becomes(new, now)
    BY DEF Write, Goes
  <1>2. status[c].id \in Ids /\ status[c].row \in Row
    BY <1>1, StatusType
  <1>3. row \in Row
    BY <1>2 DEF Row, TypeOK
  <1>4. new \in [Ids -> Row \cup {None}]
    BY <1>2, <1>3 DEF TypeOK
  <1>5. rows' \in [Ids -> Row \cup {None}] /\ now' \in Nat /\ alone' \in BOOLEAN
    BY <1>1, <1>4, BecomesType DEF TypeOK
  <1>6. /\ misled' \in BOOLEAN /\ stamp' \in Nat
        /\ pc' = [pc EXCEPT ![c] = "idle"]
        /\ status' = [status EXCEPT ![c] = None]
        /\ asOf' = [asOf EXCEPT ![c] = None]
        /\ UNCHANGED <<reading, calls>>
    BY DEF Write, Goes, TypeOK
  <1>7. queued' \subseteq Ids /\ told' \in Nat \cup {None} /\ rivals' \subseteq Callers
    BY <1>2 DEF Write, Gives, TypeOK, Row
  <1>8. /\ pc' \in [Callers -> {"idle", "latest", "upsert", "repair", "seen", "write"}]
        /\ status' \in [Callers -> Written \cup {None}]
        /\ asOf' \in [Callers -> Nat \cup {None}]
    BY <1>6 DEF TypeOK
  <1>9. ASSUME NEW d \in Callers
        PROVE  /\ pc'[d] \in {"latest", "upsert"} => status'[d] # None
               /\ pc'[d] \in {"repair", "seen", "write"} => seen'[d] # None
               /\ pc'[d] = "write" => end'[d] # None
    BY <1>6 DEF TypeOK
  <1> QED
    BY <1>5, <1>6, <1>7, <1>8, <1>9 DEF TypeOK

LEMMA TypeInit == Init => TypeOK
  <1> SUFFICES ASSUME Init PROVE TypeOK
    OBVIOUS
  <1>1. alone \in BOOLEAN /\ misled \in BOOLEAN
    BY Zenon DEF Init
  <1>2. rows \in [Ids -> Row \cup {None}]
    BY Zenon, RequestAssumption DEF Init
  <1>3. /\ now = 0 /\ stamp = 0 /\ calls = 0 /\ faults = 0
        /\ pc = [c \in Callers |-> "idle"]
        /\ status = [c \in Callers |-> None]
        /\ seen = [c \in Callers |-> None]
        /\ left = [c \in Callers |-> {}]
        /\ end = [c \in Callers |-> None]
        /\ asOf = [c \in Callers |-> None]
        /\ sweeps = {} /\ queued = {} /\ rivals = {}
    BY Zenon DEF Init
  <1>4. told \in Nat \cup {None}
    <2>1. told = IF rows[Base] = None THEN None ELSE rows[Base].expiry
      BY Zenon DEF Init
    <2> QED
      BY <1>2, <2>1 DEF Ids, Row
  <1> QED
    BY <1>1, <1>2, <1>3, <1>4 DEF TypeOK

\* What a reader finds.
LEMMA FoundType == ASSUME TypeOK, NEW cut PROVE Found(now, cut) \in [Ids -> Row \cup {None}]
  BY WithoutType DEF Found, TypeOK

LEMMA FoundRow ==
    ASSUME NEW cut, NEW i \in Ids, Found(now, cut)[i] # None
    PROVE  Found(now, cut)[i] = rows[i] /\ i \in Current(rows, now) /\ i \notin cut
  BY DEF Found, Without

\* A reader that goes on has found a base row that waits.
LEMMA SelectFinds ==
    ASSUME NEW c \in Callers, NEW cut, Select(c, cut)
    PROVE  /\ rows[Base] # None /\ rows[Base].expiry = None
           /\ Found(now, cut)[Base] = rows[Base]
  <1>1. Waits(Found(now, cut))
    BY DEF Select, WritesExpiry, MayOutlast
  <1> QED
    BY <1>1, FoundRow DEF Waits, Ids

LEMMA TypeSelect ==
    ASSUME TypeOK, NEW c \in Callers, NEW cut, Select(c, cut), faults' \in Nat
    PROVE  TypeOK'
  <1> DEFINE tab == Found(now, cut)
             kept == [stamp |-> tab[Base].stamp, whole |-> cut = {},
                      duration |-> tab[Base].duration]
             rest == {<<o, tab[o].expiry>> : o \in {p \in Overlays : tab[p] # None}}
  <1>1. tab[Base] \in Row
    BY SelectFinds DEF TypeOK, Ids
  <1>2. kept \in Kept
    BY <1>1 DEF Kept, Row
  <1>3. rest \in SUBSET (Overlays \X Nat)
    <2>1. CASE WritesExpiry(tab)
      BY <2>1 DEF WritesExpiry
    <2>2. CASE MayOutlast(tab)
      <3>1. ASSUME NEW o \in Overlays, tab[o] # None PROVE tab[o].expiry \in Nat
        BY <2>2, <3>1, FoundType DEF MayOutlast, Ids, Row
      <3> QED
        BY <3>1
    <2> QED
      BY <2>1, <2>2 DEF Select
  <1>4. /\ seen' = [seen EXCEPT ![c] = kept] /\ left' = [left EXCEPT ![c] = rest]
        /\ UNCHANGED <<now, rows, stamp, status, end, sweeps, asOf, alone, misled,
                       promise, queued, calls>>
        /\ \/ pc' = [pc EXCEPT ![c] = "seen"]
           \/ pc' = [pc EXCEPT ![c] = "repair"]
    BY DEF Select, Goes
  <1> HIDE DEF kept, rest, tab
  <1>5. kept # None
    BY <1>2, StatusAssumption
  <1> QED
    BY <1>2, <1>3, <1>4, <1>5 DEF TypeOK

\* A reader is done.
LEMMA TypeEndRead ==
    ASSUME TypeOK, NEW c \in Callers, NEW from, EndRead(c, from),
           rows' \in [Ids -> Row \cup {None}], alone' \in BOOLEAN, misled' \in BOOLEAN,
           told' \in Nat \cup {None}, rivals' \subseteq Callers, faults' \in Nat
    PROVE  TypeOK'
  <1>1. /\ pc' = [pc EXCEPT ![c] = "idle"] /\ seen' = [seen EXCEPT ![c] = None]
        /\ left' = [left EXCEPT ![c] = {}] /\ end' = [end EXCEPT ![c] = None]
        /\ UNCHANGED <<now, stamp, status, sweeps, asOf, queued, calls>>
    BY DEF EndRead, Goes
  <1> QED
    BY <1>1 DEF TypeOK

LEMMA TellsType ==
    ASSUME TypeOK, NEW c \in Callers, NEW e \in Nat, Tells(c, e)
    PROVE  told' \in Nat \cup {None} /\ rivals' \subseteq Callers
  BY DEF Tells, Gives, TypeOK

\* A reader under way knows what it was given, and one that writes its end.
LEMMA ReaderType ==
    ASSUME TypeOK, NEW c \in Callers, pc[c] \in {"repair", "seen", "write"}
    PROVE  /\ seen[c] \in Kept /\ seen[c].stamp \in Nat /\ seen[c].duration \in Nat
           /\ pc[c] = "write" => end[c] \in Nat
  BY DEF TypeOK, Kept

LEMMA TypeReads ==
    ASSUME TypeOK, NEW c \in Callers,
           \/ Query(c) \/ QueryCutOff(c) \/ Drop(c) \/ Keep(c) \/ Tell(c)
           \/ Answer(c) \/ WriteBack(c) \/ FailWriteBack(c)
    PROVE  TypeOK'
  <1>1. CASE Query(c) \/ QueryCutOff(c)
    <2>1. faults' \in Nat /\ \E cut : Select(c, cut)
      BY <1>1 DEF Query, QueryCutOff, TypeOK
    <2> QED
      BY <2>1, TypeSelect
  <1>2. CASE Answer(c)
    <2>1. seen[c].duration \in Nat /\ seen[c] # None
      BY <1>2, ReaderType DEF Answer, Goes, TypeOK
    <2>2. now + seen[c].duration \in Nat /\ now + seen[c].duration # None
      BY <2>1, StatusAssumption DEF TypeOK
    <2> QED
      BY <1>2, <2>1, <2>2 DEF Answer, Goes, TypeOK
  <1>3. CASE WriteBack(c)
    <2>1. pc[c] = "write" /\ end[c] \in Nat /\ end[c] # None
      BY <1>3, ReaderType DEF WriteBack, EndRead, Goes, TypeOK
    <2>2. SetExpiry(c) \in [Ids -> Row \cup {None}]
      BY <2>1, SetExpiryType
    <2>3. rows' \in [Ids -> Row \cup {None}] /\ alone' \in BOOLEAN
      BY <1>3, <2>2, BecomesType DEF WriteBack, TypeOK
    <2>4. misled' \in BOOLEAN /\ told' \in Nat \cup {None} /\ rivals' \subseteq Callers
      BY <1>3, <2>1 DEF WriteBack, Gives
    <2> QED
      BY <1>3, <2>3, <2>4, TypeEndRead DEF WriteBack, TypeOK
  <1>4. CASE FailWriteBack(c)
    <2>1. end[c] \in Nat
      BY <1>4, ReaderType DEF FailWriteBack, EndRead, Goes
    <2> QED
      BY <1>4, <2>1, TellsType, TypeEndRead DEF FailWriteBack, TypeOK
  <1>5. CASE Drop(c)
    BY <1>5 DEF Drop, TypeOK
  <1>6. CASE Keep(c)
    BY <1>6, TypeEndRead DEF Keep, TypeOK
  <1>7. CASE Tell(c)
    <2>1. now + seen[c].duration \in Nat
      BY <1>7, ReaderType DEF Tell, EndRead, Goes, TypeOK
    <2> QED
      BY <1>7, <2>1, TellsType, TypeEndRead DEF Tell, TypeOK
  <1> QED
    BY <1>1, <1>2, <1>3, <1>4, <1>5, <1>6, <1>7

LEMMA TypeClears ==
    ASSUME TypeOK, NEW c \in Callers, NEW ids, Clear(c, ids)
    PROVE  TypeOK'
  <1>1. rows' \in [Ids -> Row \cup {None}] /\ now' \in Nat /\ alone' \in BOOLEAN
    BY WithoutType, BecomesType DEF Clear, TypeOK
  <1> QED
    BY <1>1 DEF Clear, TypeOK

LEMMA TypeSets ==
    ASSUME TypeOK, NEW c \in Callers,
           \/ \E s \in Requests : SetUserStatus(c, s)
           \/ ReadLatest(c) \/ Upsert(c) \/ FailSet(c)
    PROVE  TypeOK'
  <1>1. ASSUME NEW s \in Requests, SetUserStatus(c, s) PROVE TypeOK'
    <2> DEFINE expiry == IF s.lasts = None \/ s.after = "overlay" THEN None
                         ELSE now + s.lasts
               duration == IF s.lasts # None /\ s.duration = 0 THEN s.lasts
                           ELSE s.duration
               row == [expiry |-> expiry, after |-> s.after, duration |-> duration,
                       logout |-> s.logout, stamp |-> 0]
               asked == [id |-> s.id, row |-> row]
    <2>1. s \in Status
      BY RequestAssumption
    <2>2. expiry \in Nat \cup {None} /\ duration \in Nat
      BY <2>1 DEF Status, TypeOK
    <2>3. row \in Row
      BY <2>1, <2>2 DEF Status, Row
    <2>4. asked \in Written
      BY <2>1, <2>3 DEF Status, Written
    <2>5. asked # None
      BY <2>4, StatusAssumption
    <2>6. status' = [status EXCEPT ![c] = asked]
      BY <1>1 DEF SetUserStatus
    <2>7. /\ calls' \in Nat
          /\ pc[c] = "idle"
          /\ pc' = [pc EXCEPT ![c] = IF s.after = "latest" THEN "latest" ELSE "upsert"]
          /\ UNCHANGED <<now, rows, stamp, reading, sweeps, asOf, alone, misled,
                         promise, queued, faults>>
      BY <1>1 DEF SetUserStatus, Goes, TypeOK
    <2> HIDE DEF asked
    <2> QED
      BY <2>4, <2>5, <2>6, <2>7 DEF TypeOK
  <1>2. CASE ReadLatest(c)
    <2>1. status[c] \in Written
      BY <1>2, StatusType DEF ReadLatest, Goes
    <2>2. status'[c] \in Written /\ \A d \in Callers : d # c => status'[d] = status[d]
      <3>1. CASE status' = [status EXCEPT ![c].row.expiry = now + status[c].row.duration]
        BY <2>1, <3>1 DEF TypeOK, Written, Row
      <3>2. ASSUME NEW o \in Latest,
                   status' = [status EXCEPT
                      ![c].row.after = o,
                      ![c].row.expiry = rows[o].expiry + status[c].row.duration]
            PROVE  status'[c] \in Written /\ \A d \in Callers : d # c => status'[d] = status[d]
        <4>1. o \in Overlays /\ rows[o] # None /\ rows[o].expiry # None
          BY DEF Latest, Ending
        <4>2. rows[o] \in Row
          BY <4>1 DEF TypeOK, Ids
        <4>3. rows[o].expiry + status[c].row.duration \in Nat
          BY <2>1, <4>1, <4>2 DEF Row, Written
        <4> QED
          BY <2>1, <3>2, <4>1, <4>3 DEF TypeOK, Written, Row, Afters
      <3> QED
        BY <1>2, <3>1, <3>2 DEF ReadLatest
    <2>3. status'[c] # None
      BY <2>2, StatusAssumption
    <2>4. status' \in [Callers -> Written \cup {None}]
      <3>1. CASE status' = [status EXCEPT ![c].row.expiry = now + status[c].row.duration]
        BY <2>2, <3>1 DEF TypeOK
      <3>2. ASSUME NEW o \in Latest,
                   status' = [status EXCEPT
                      ![c].row.after = o,
                      ![c].row.expiry = rows[o].expiry + status[c].row.duration]
            PROVE  status' \in [Callers -> Written \cup {None}]
        BY <2>2, <3>2 DEF TypeOK
      <3> QED
        BY <1>2, <3>1, <3>2 DEF ReadLatest
    <2>5. asOf' \in [Callers -> Nat \cup {None}]
      BY <1>2 DEF ReadLatest, TypeOK
    <2> QED
      BY <1>2, <2>2, <2>3, <2>4, <2>5 DEF ReadLatest, Goes, TypeOK
  <1>3. CASE Upsert(c)
    <2>1. Write(c) /\ sweeps' \subseteq Nat \X Nat /\ faults' \in Nat
      BY <1>3 DEF Upsert, Write, TypeOK
    <2> QED
      BY <2>1, WriteType
  <1>4. CASE FailSet(c)
    <2>1. sweeps' \subseteq Nat \X Nat /\ faults' \in Nat
      BY <1>4 DEF FailSet, TypeOK
    <2>2. CASE Write(c)
      BY <2>1, <2>2, WriteType
    <2>3. CASE pc' = [pc EXCEPT ![c] = "idle"] /\ ~Write(c)
      BY <1>4, <2>1, <2>3 DEF FailSet, TypeOK
    <2> QED
      BY <1>4, <2>2, <2>3 DEF FailSet
  <1> QED
    BY <1>1, <1>2, <1>3, <1>4

LEMMA TypeNext == TypeOK /\ [Next]_vars => TypeOK'
  <1> SUFFICES ASSUME TypeOK, [Next]_vars PROVE TypeOK'
    OBVIOUS
  <1>1. CASE UNCHANGED vars
    BY <1>1 DEF vars, TypeOK
  <1>2. CASE Tick
    <2>1. rows' \in [Ids -> Row \cup {None}] /\ now' \in Nat /\ alone' \in BOOLEAN
      BY <1>2, BecomesType DEF Tick, TypeOK
    <2> QED
      BY <1>2, <2>1 DEF Tick, TypeOK
  <1>3. ASSUME NEW s \in sweeps, Sweep(s) PROVE TypeOK'
    <2>1. rows' \in [Ids -> Row \cup {None}] /\ now' \in Nat /\ alone' \in BOOLEAN
      BY <1>3, WithoutType, BecomesType DEF Sweep, TypeOK
    <2> QED
      BY <1>3, <2>1 DEF Sweep, TypeOK
  <1>4. ASSUME NEW s \in sweeps, LoseSweep(s) PROVE TypeOK'
    BY <1>4 DEF LoseSweep, TypeOK
  <1>5. ASSUME NEW c \in Callers,
               \/ Step(c) \/ Query(c) \/ QueryCutOff(c) \/ FailSet(c)
               \/ FailWriteBack(c)
               \/ \E s \in Requests : SetUserStatus(c, s)
        PROVE  TypeOK'
    BY <1>5, TypeReads, TypeSets DEF Step
  <1>6. ASSUME NEW c \in Callers,
               \/ ClearUserStatusLogout(c)
               \/ \E o \in Overlays : ClearUserStatusID(c, o)
        PROVE  TypeOK'
    BY <1>6, TypeClears DEF ClearUserStatusLogout, ClearUserStatusID
  <1> QED
    BY <1>1, <1>2, <1>3, <1>4, <1>5, <1>6 DEF Next

\* Every reachable state is well typed.
THEOREM TypeSafety == Spec => []TypeOK
  BY TypeInit, TypeNext, PTL DEF Spec

-----------------------------------------------------------------------------
(* The inductive invariant behind the properties.                           *)

\* A reader is under way.
Reads(c) == pc[c] \in {"repair", "seen", "write"}

\* The rows there are, and those readers remember, are of upserts so far, and
\* the duration they remember is that of their row.
Stamped ==
    /\ \A i \in Ids : rows[i] # None => rows[i].stamp <= stamp
    /\ \A c \in Callers : Reads(c) =>
          /\ seen[c].stamp <= stamp
          /\ rows[Base] # None /\ rows[Base].stamp = seen[c].stamp =>
                rows[Base].duration = seen[c].duration

\* A row that waits for the overlays is set without an end.
SetWaiting ==
    \A c \in Callers :
        /\ pc[c] = "latest" => status[c].row.after = "latest"
        /\ pc[c] = "upsert" /\ status[c].row.after = "overlay" => status[c].row.expiry = None

\* `alone` misses no time without overlays.
AloneNoted == rows[Base] # None /\ Current(rows, now) \cap Overlays = {} => alone

\* Whoever is about to write an end, and was given all rows, found the row alone.
ReaderSawAlone ==
    \A c \in Callers :
        /\ pc[c] \in {"seen", "write"} /\ seen[c].whole
        /\ rows[Base] # None /\ rows[Base].stamp = seen[c].stamp
        => alone

\* A goroutine deletes what was over when it was started.
SweepsPast == \A s \in sweeps : s[2] <= now

Inv == /\ TypeOK /\ Stamped /\ SetWaiting /\ AloneNoted /\ ReaderSawAlone
       /\ SweepsPast /\ BaseWaits

\* While the base row is not replaced, `alone` stays.
LEMMA AloneStays ==
    ASSUME NEW new, NEW t, Becomes(new, t), new[Base] # None,
           rows[Base] # None, new[Base].stamp = rows[Base].stamp, alone
    PROVE  alone'
  BY DEF Becomes

LEMMA AloneNotes == ASSUME NEW new, NEW t, Becomes(new, t) PROVE AloneNoted'
  BY DEF Becomes, AloneNoted, Current

LEMMA InvInit == Init => Inv
  <1> SUFFICES ASSUME Init PROVE Inv
    OBVIOUS
  <1>1. TypeOK
    BY TypeInit
  <1>2. \A i \in Ids : rows[i] # None => rows[i].stamp = 0
    BY RequestAssumption DEF Init
  <1>3. AloneNoted /\ BaseWaits
    BY DEF Init, AloneNoted, BaseWaits
  <1>4. Stamped /\ SetWaiting /\ ReaderSawAlone /\ SweepsPast
    BY <1>2 DEF Init, Stamped, Reads, SetWaiting, ReaderSawAlone, SweepsPast
  <1> QED
    BY <1>1, <1>3, <1>4 DEF Inv

\* A step that takes rows away, or moves the clock, and leaves the callers alone.
LEMMA InvTakes ==
    ASSUME Inv, TypeOK', NEW ids, NEW t \in Nat, now <= t, Becomes(Without(ids), t),
           sweeps' \subseteq sweeps, UNCHANGED <<stamp, pc, status, seen, misled>>
    PROVE  Inv'
  <1>1. \A i \in Ids : rows'[i] # None => rows[i] # None /\ rows'[i] = rows[i]
    BY DEF Becomes, Without
  <1>2. rows'[Base] # None /\ alone => alone'
    BY <1>1, AloneStays DEF Becomes, Ids
  <1>3. Stamped' /\ SetWaiting'
    BY <1>1 DEF Inv, Stamped, Reads, SetWaiting, Ids
  <1>4. AloneNoted'
    BY AloneNotes
  <1>5. ReaderSawAlone' /\ BaseWaits'
    BY <1>1, <1>2 DEF Inv, ReaderSawAlone, BaseWaits, Ids
  <1>6. SweepsPast'
    BY DEF Inv, TypeOK, SweepsPast, Becomes
  <1> QED
    BY <1>3, <1>4, <1>5, <1>6 DEF Inv

\* The upsert of a status.
LEMMA InvWrite ==
    ASSUME Inv, TypeOK', NEW c \in Callers, Write(c),
           sweeps' \subseteq sweeps \cup {<<stamp', now>>}
    PROVE  Inv'
  <1> DEFINE id == status[c].id
             row == [status[c].row EXCEPT !.stamp = stamp + 1]
  <1> USE DEF Inv
  <1>1. /\ pc[c] = "upsert" /\ pc' = [pc EXCEPT ![c] = "idle"]
        /\ Becomes([rows EXCEPT ![id] = row], now)
        /\ stamp' = stamp + 1 /\ (misled /\ id # Base => misled')
        /\ status' = [status EXCEPT ![c] = None] /\ UNCHANGED seen
    BY DEF Write, Goes
  <1>2. id \in Ids /\ status[c].row \in Row
    BY <1>1, StatusType
  <1>3. row \in Row /\ row.stamp = stamp + 1 /\ row # None
        /\ row.after = status[c].row.after /\ row.expiry = status[c].row.expiry
    BY <1>2, StatusAssumption DEF Row, TypeOK
  <1> HIDE DEF row
  <1>4. /\ rows' = [rows EXCEPT ![id] = row] /\ now' = now
        /\ rows'[id] = row /\ \A i \in Ids : i # id => rows'[i] = rows[i]
    BY <1>1, <1>2 DEF Becomes, TypeOK
  <1>5. \A i \in Ids : rows[i] # None => rows[i] \in Row /\ rows[i].stamp \in Nat
    BY DEF TypeOK, Row
  <1>6. \A d \in Callers : Reads(d) => seen[d].stamp \in Nat /\ seen[d].stamp <= stamp
    BY ReaderType DEF Reads, Stamped
  <1>7. pc'[c] = "idle" /\ \A d \in Callers : d # c => pc'[d] = pc[d] /\ status'[d] = status[d]
    BY <1>1 DEF TypeOK
  <1>8. Stamped'
    <2>1. \A i \in Ids : rows'[i] # None => rows'[i].stamp <= stamp'
      BY <1>1, <1>3, <1>4, <1>5 DEF Stamped, TypeOK
    <2>2. ASSUME NEW d \in Callers, Reads(d)'
          PROVE  /\ seen'[d].stamp <= stamp'
                 /\ rows'[Base] # None /\ rows'[Base].stamp = seen'[d].stamp =>
                       rows'[Base].duration = seen'[d].duration
      <3>1. Reads(d) /\ seen'[d] = seen[d]
        BY <1>1, <1>7, <2>2 DEF Reads
      <3>2. seen[d].stamp <= stamp /\ seen[d].stamp \in Nat /\ stamp \in Nat
        BY <1>6, <3>1 DEF TypeOK
      <3>3. seen'[d].stamp <= stamp' /\ seen'[d].stamp # stamp + 1
        BY <1>1, <3>1, <3>2
      <3> QED
        BY <1>3, <1>4, <3>1, <3>3 DEF Stamped, Ids
    <2> QED
      BY <2>1, <2>2 DEF Stamped
  <1>9. SetWaiting'
    BY <1>7 DEF SetWaiting
  <1>10. AloneNoted'
    BY <1>1, AloneNotes
  <1>11. CASE id = Base
    <2>1. \A d \in Callers : pc'[d] \in {"seen", "write"} => rows'[Base].stamp # seen'[d].stamp
      BY <1>1, <1>3, <1>4, <1>6, <1>7, <1>11 DEF Reads, TypeOK
    <2>2. ReaderSawAlone'
      BY <1>1, <1>7, <2>1 DEF ReaderSawAlone
    <2>3. BaseWaits'
      BY <1>1, <1>3, <1>4, <1>11 DEF BaseWaits, SetWaiting
    <2> QED
      BY <1>8, <1>9, <1>10, <2>2, <2>3, <1>4 DEF SweepsPast, TypeOK
  <1>12. CASE id # Base
    <2>1. rows'[Base] = rows[Base]
      BY <1>4, <1>12 DEF Ids
    <2>2. rows[Base] # None /\ alone => alone'
      BY <1>1, <1>4, <2>1, AloneStays
    <2>3. ReaderSawAlone'
      BY <1>1, <1>7, <2>1, <2>2 DEF ReaderSawAlone
    <2>4. misled => misled'
      BY <1>1, <1>12
    <2>5. BaseWaits'
      BY <2>1, <2>2, <2>4 DEF BaseWaits
    <2> QED
      BY <1>8, <1>9, <1>10, <2>3, <2>5, <1>4 DEF SweepsPast, TypeOK
  <1> QED
    BY <1>11, <1>12

\* A step that leaves table and clock alone, in which at most c goes on or stops.
LEMMA InvQuiet ==
    ASSUME Inv, TypeOK', NEW c \in Callers,
           UNCHANGED <<now, rows, stamp, alone, misled>>, sweeps' \subseteq sweeps,
           \A d \in Callers \ {c} : pc'[d] = pc[d] /\ status'[d] = status[d] /\ seen'[d] = seen[d],
           pc'[c] = "latest" => status'[c].row.after = "latest",
           pc'[c] = "upsert" /\ status'[c].row.after = "overlay" => status'[c].row.expiry = None,
           Reads(c)' =>
              /\ seen'[c].stamp <= stamp
              /\ rows[Base] # None /\ rows[Base].stamp = seen'[c].stamp =>
                    rows[Base].duration = seen'[c].duration,
           pc'[c] \in {"seen", "write"} /\ seen'[c].whole
              /\ rows[Base] # None /\ rows[Base].stamp = seen'[c].stamp => alone
    PROVE  Inv'
  <1>1. Stamped'
    BY DEF Inv, Stamped, Reads
  <1>2. SetWaiting'
    BY DEF Inv, SetWaiting
  <1>3. AloneNoted' /\ BaseWaits'
    BY DEF Inv, AloneNoted, BaseWaits, Current
  <1>4. ReaderSawAlone'
    BY DEF Inv, ReaderSawAlone
  <1>5. SweepsPast'
    BY DEF Inv, SweepsPast
  <1> QED
    BY <1>1, <1>2, <1>3, <1>4, <1>5 DEF Inv

LEMMA InvSets ==
    ASSUME Inv, TypeOK', NEW c \in Callers,
           \/ \E s \in Requests : SetUserStatus(c, s)
           \/ ReadLatest(c) \/ Upsert(c) \/ FailSet(c)
    PROVE  Inv'
  <1> USE DEF Inv
  <1>1. ASSUME NEW s \in Requests, SetUserStatus(c, s) PROVE Inv'
    <2>1. /\ pc' = [pc EXCEPT ![c] = IF s.after = "latest" THEN "latest" ELSE "upsert"]
          /\ UNCHANGED <<now, rows, stamp, alone, misled, sweeps, seen>>
          /\ status'[c].row.after = s.after
          /\ s.after = "overlay" => status'[c].row.expiry = None
          /\ \A d \in Callers \ {c} : status'[d] = status[d]
      BY <1>1 DEF SetUserStatus, Goes, TypeOK
    <2>2. /\ \A d \in Callers \ {c} : pc'[d] = pc[d]
          /\ pc'[c] = IF s.after = "latest" THEN "latest" ELSE "upsert"
      BY <2>1 DEF TypeOK
    <2> QED
      BY <2>1, <2>2, InvQuiet DEF Reads
  <1>2. CASE ReadLatest(c)
    <2>1. status[c] \in Written /\ status[c].row.after = "latest"
      BY <1>2, StatusType DEF ReadLatest, Goes, SetWaiting
    <2>2. /\ status'[c].row.after \in {"latest"} \cup Overlays
          /\ \A d \in Callers \ {c} : status'[d] = status[d]
      <3>1. CASE status' = [status EXCEPT ![c].row.expiry = now + status[c].row.duration]
        BY <2>1, <3>1 DEF TypeOK, Written, Row
      <3>2. ASSUME NEW o \in Latest,
                   status' = [status EXCEPT
                      ![c].row.after = o,
                      ![c].row.expiry = rows[o].expiry + status[c].row.duration]
            PROVE  /\ status'[c].row.after \in {"latest"} \cup Overlays
                   /\ \A d \in Callers \ {c} : status'[d] = status[d]
        BY <2>1, <3>2 DEF TypeOK, Written, Row, Latest, Ending
      <3> QED
        BY <1>2, <3>1, <3>2 DEF ReadLatest
    <2>3. status'[c].row.after # "overlay"
      BY <2>2, StatusAssumption DEF Markers
    <2>4. /\ UNCHANGED <<now, rows, stamp, alone, misled, sweeps, seen>>
          /\ pc' = [pc EXCEPT ![c] = "upsert"]
      BY <1>2 DEF ReadLatest, Goes
    <2>5. pc'[c] = "upsert" /\ \A d \in Callers \ {c} : pc'[d] = pc[d]
      BY <2>4 DEF TypeOK
    <2> QED
      BY <2>2, <2>3, <2>4, <2>5, InvQuiet DEF Reads
  <1>3. CASE Upsert(c)
    BY <1>3, InvWrite DEF Upsert
  <1>4. CASE FailSet(c)
    <2>1. CASE Write(c)
      BY <1>4, <2>1, InvWrite DEF FailSet
    <2>2. CASE ~Write(c)
      <3>1. /\ UNCHANGED <<now, rows, stamp, alone, misled, sweeps, seen>>
            /\ pc' = [pc EXCEPT ![c] = "idle"]
            /\ status' = [status EXCEPT ![c] = None]
        BY <1>4, <2>2 DEF FailSet
      <3>2. pc'[c] = "idle" /\ \A d \in Callers \ {c} : pc'[d] = pc[d] /\ status'[d] = status[d]
        BY <3>1 DEF TypeOK
      <3> QED
        BY <3>1, <3>2, InvQuiet DEF Reads
    <2> QED
      BY <2>1, <2>2
  <1> QED
    BY <1>1, <1>2, <1>3, <1>4

\* A reader that was given all rows finds no overlay on only when there is none.
LEMMA FoundAlone ==
    ASSUME Inv, WritesExpiry(Found(now, {}))
    PROVE  alone
  <1>1. /\ Found(now, {})[Base] # None
        /\ \A o \in Overlays : Found(now, {})[o] = None
    BY DEF WritesExpiry, Waits
  <1>2. \A i \in Ids : Found(now, {})[i] = IF i \in Current(rows, now) THEN rows[i] ELSE None
    BY DEF Found, Without
  <1>3. rows[Base] # None
    BY <1>1, <1>2 DEF Ids
  <1>4. Current(rows, now) \cap Overlays = {}
    BY <1>1, <1>2 DEF Ids, Current
  <1> QED
    BY <1>3, <1>4 DEF Inv, AloneNoted

LEMMA InvSelect ==
    ASSUME Inv, TypeOK', NEW c \in Callers, NEW cut, Select(c, cut)
    PROVE  Inv'
  <1> DEFINE tab == Found(now, cut)
  <1>1. rows[Base] # None /\ tab[Base] = rows[Base]
    BY SelectFinds
  <1>2. /\ UNCHANGED <<now, rows, stamp, alone, misled, sweeps, status>>
        /\ seen' = [seen EXCEPT ![c] = [stamp |-> tab[Base].stamp, whole |-> cut = {},
                                        duration |-> tab[Base].duration]]
        /\ \/ pc' = [pc EXCEPT ![c] = "seen"] /\ WritesExpiry(tab)
           \/ pc' = [pc EXCEPT ![c] = "repair"]
    BY DEF Select, Goes
  <1>3. /\ seen'[c].stamp = rows[Base].stamp /\ seen'[c].duration = rows[Base].duration
        /\ seen'[c].whole <=> cut = {}
        /\ \A d \in Callers \ {c} : pc'[d] = pc[d] /\ seen'[d] = seen[d]
        /\ pc'[c] \in {"seen", "repair"}
        /\ pc'[c] = "seen" => WritesExpiry(tab)
    BY <1>1, <1>2 DEF Inv, TypeOK
  <1>4. seen'[c].stamp <= stamp
    BY <1>1, <1>3 DEF Inv, Stamped, Ids
  <1>5. pc'[c] = "seen" /\ seen'[c].whole => alone
    BY <1>3, FoundAlone
  <1> HIDE DEF tab
  <1> QED
    BY <1>2, <1>3, <1>4, <1>5, InvQuiet

\* A reader that stops without a write.
LEMMA InvStops ==
    ASSUME Inv, TypeOK', NEW c \in Callers, NEW from, EndRead(c, from),
           UNCHANGED <<rows, alone, misled>>
    PROVE  Inv'
  <1>1. /\ UNCHANGED <<now, rows, stamp, alone, misled, sweeps, status>>
        /\ pc' = [pc EXCEPT ![c] = "idle"] /\ seen' = [seen EXCEPT ![c] = None]
    BY DEF EndRead, Goes
  <1>2. /\ pc'[c] = "idle"
        /\ \A d \in Callers \ {c} : pc'[d] = pc[d] /\ seen'[d] = seen[d]
    BY <1>1 DEF Inv, TypeOK
  <1> QED
    BY <1>1, <1>2, InvQuiet DEF Reads

LEMMA InvReads ==
    ASSUME Inv, TypeOK', NEW c \in Callers,
           \/ Query(c) \/ QueryCutOff(c) \/ Drop(c) \/ Keep(c) \/ Tell(c)
           \/ Answer(c) \/ WriteBack(c) \/ FailWriteBack(c)
    PROVE  Inv'
  <1>1. CASE Query(c) \/ QueryCutOff(c)
    BY <1>1, InvSelect DEF Query, QueryCutOff
  <1>2. CASE Answer(c)
    <2>1. /\ UNCHANGED <<now, rows, stamp, alone, misled, sweeps, status, seen>>
          /\ pc[c] = "seen" /\ pc' = [pc EXCEPT ![c] = "write"]
      BY <1>2 DEF Answer, Goes
    <2>2. pc'[c] = "write" /\ \A d \in Callers \ {c} : pc'[d] = pc[d]
      BY <2>1 DEF Inv, TypeOK
    <2>3. /\ seen[c].stamp <= stamp
          /\ rows[Base] # None /\ rows[Base].stamp = seen[c].stamp =>
                rows[Base].duration = seen[c].duration /\ (seen[c].whole => alone)
      BY <2>1 DEF Inv, ReaderSawAlone, Stamped, Reads
    <2> QED
      BY <2>1, <2>2, <2>3, InvQuiet
  <1>3. CASE WriteBack(c)
    <2>1. /\ pc[c] = "write" /\ pc' = [pc EXCEPT ![c] = "idle"]
          /\ seen' = [seen EXCEPT ![c] = None]
          /\ UNCHANGED <<stamp, status, sweeps>>
          /\ Becomes(SetExpiry(c), now)
          /\ rows[Base] # None /\ (rows[Base].stamp # seen[c].stamp \/ ~seen[c].whole)
                => misled'
      BY <1>3 DEF WriteBack, EndRead, Goes
    <2>2. /\ pc'[c] = "idle"
          /\ \A d \in Callers \ {c} : pc'[d] = pc[d] /\ seen'[d] = seen[d]
      BY <2>1 DEF Inv, TypeOK
    <2>3. now' = now /\ rows' = SetExpiry(c)
      BY <2>1 DEF Becomes
    <2>4. /\ \A i \in Ids : i # Base => rows'[i] = rows[i]
          /\ rows'[Base] # None =>
                /\ rows[Base] # None /\ rows[Base] \in Row
                /\ rows'[Base].stamp = rows[Base].stamp
                /\ rows'[Base].duration = rows[Base].duration
      BY <2>3 DEF SetExpiry, Inv, TypeOK, Row, Ids
    <2>5. rows'[Base] # None /\ alone => alone'
      BY <2>1, <2>3, <2>4, AloneStays
    <2>6. Stamped' /\ SetWaiting' /\ SweepsPast'
      <3>1. Base \in Ids
        BY DEF Ids
      <3>2. Stamped'
        BY <2>1, <2>2, <2>4, <3>1 DEF Inv, Stamped, Reads
      <3>3. SetWaiting'
        BY <2>1, <2>2 DEF Inv, SetWaiting
      <3>4. SweepsPast'
        BY <2>1, <2>3 DEF Inv, SweepsPast
      <3> QED
        BY <3>2, <3>3, <3>4
    <2>7. AloneNoted'
      BY <2>1, AloneNotes
    <2>8. ReaderSawAlone'
      BY <2>2, <2>4, <2>5 DEF Inv, ReaderSawAlone
    <2>9. BaseWaits'
      <3>1. rows'[Base] # None => alone' \/ misled'
        BY <2>1, <2>4, <2>5 DEF Inv, ReaderSawAlone
      <3> QED
        BY <3>1 DEF BaseWaits
    <2> QED
      BY <2>6, <2>7, <2>8, <2>9 DEF Inv
  <1>4. CASE FailWriteBack(c) \/ Keep(c) \/ Tell(c)
    BY <1>4, InvStops DEF FailWriteBack, Keep, Tell
  <1>5. CASE Drop(c)
    <2>1. UNCHANGED <<now, rows, stamp, alone, misled, sweeps, status, seen, pc>>
      BY <1>5 DEF Drop
    <2> QED
      BY <2>1 DEF Inv, Stamped, Reads, SetWaiting, AloneNoted, Current, ReaderSawAlone,
                  SweepsPast, BaseWaits
  <1> QED
    BY <1>1, <1>2, <1>3, <1>4, <1>5

LEMMA InvNext == Inv /\ [Next]_vars => Inv'
  <1> SUFFICES ASSUME Inv, [Next]_vars PROVE Inv'
    OBVIOUS
  <1> TypeOK'
    BY TypeNext DEF Inv
  <1>1. CASE UNCHANGED vars
    BY <1>1 DEF vars, Inv, Stamped, Reads, SetWaiting, AloneNoted, Current, ReaderSawAlone,
               SweepsPast, BaseWaits
  <1>2. CASE Tick
    <2>1. rows = Without({})
      BY DEF Without, Inv, TypeOK
    <2>2. now + 1 \in Nat /\ now <= now + 1
      BY DEF Inv, TypeOK
    <2> QED
      BY <1>2, <2>1, <2>2, InvTakes DEF Tick
  <1>3. ASSUME NEW s \in sweeps, Sweep(s) PROVE Inv'
    BY <1>3, InvTakes DEF Sweep, Inv, TypeOK
  <1>4. ASSUME NEW s \in sweeps, LoseSweep(s) PROVE Inv'
    BY <1>4 DEF LoseSweep, Inv, Stamped, Reads, SetWaiting, AloneNoted, Current, ReaderSawAlone,
                SweepsPast, BaseWaits
  <1>5. ASSUME NEW c \in Callers,
               \/ Step(c) \/ Query(c) \/ QueryCutOff(c) \/ FailSet(c)
               \/ FailWriteBack(c)
               \/ \E s \in Requests : SetUserStatus(c, s)
        PROVE  Inv'
    BY <1>5, InvReads, InvSets DEF Step
  <1>6. ASSUME NEW c \in Callers, NEW ids, Clear(c, ids) PROVE Inv'
    BY <1>6, InvTakes DEF Clear, Inv, TypeOK
  <1> QED
    BY <1>1, <1>2, <1>3, <1>4, <1>5, <1>6
       DEF Next, ClearUserStatusLogout, ClearUserStatusID

\* The invariant holds in every reachable state.
THEOREM InvCorrect == Spec => []Inv
  BY InvInit, InvNext, PTL DEF Spec

\* However readers, setters, the goroutines SetUserStatus leaves behind and the
\* clock interleave, the end of a base status that waits is fixed only if it was
\* alone at some time, or by the write-back of a reader that was given the row
\* before it or whose cursor ended early.
THEOREM BaseOutlastsOverlays == Spec => []BaseWaits
  BY InvCorrect, PTL DEF Inv

-----------------------------------------------------------------------------
(* What a step may never do.                                                *)

\* Only what has an end in the past is over.
LEMMA ExpiredGrows ==
    ASSUME Inv, NEW t \in Nat, t <= now PROVE Expired(t) \subseteq Expired(now)
  BY DEF Expired, Inv, TypeOK, Row

\* The rows of a step that takes away those of `ids`.
LEMMA WithoutTakes ==
    ASSUME NEW ids, NEW t, Becomes(Without(ids), t), NEW i \in Ids,
           rows[i] # None, rows'[i] = None
    PROVE  i \in ids
  BY DEF Becomes, Without

\* An upsert takes no row away, and a write-back none either.
LEMMA WriteKeeps ==
    ASSUME Inv, NEW c \in Callers, Write(c), NEW i \in Ids, rows[i] # None
    PROVE  rows'[i] # None
  <1> DEFINE row == [status[c].row EXCEPT !.stamp = stamp + 1]
  <1>1. pc[c] = "upsert" /\ rows' = [rows EXCEPT ![status[c].id] = row]
    BY DEF Write, Goes, Becomes
  <1>2. status[c].row \in Row
    BY <1>1, StatusType DEF Inv
  <1>3. row \in Row
    BY <1>2 DEF Row, Inv, TypeOK
  <1> HIDE DEF row
  <1> QED
    BY <1>1, <1>3, StatusAssumption DEF Inv, TypeOK

LEMMA WriteBackKeeps ==
    ASSUME Inv, NEW c \in Callers, WriteBack(c), NEW i \in Ids
    PROVE  /\ rows[i] = None <=> rows'[i] = None
           /\ i # Base => rows'[i] = rows[i]
  <1>1. end[c] # None /\ rows' = SetExpiry(c)
    BY DEF WriteBack, EndRead, Goes, Becomes, Inv, TypeOK
  <1>2. CASE rows[Base] = None
    BY <1>1, <1>2 DEF SetExpiry
  <1>3. CASE rows[Base] # None
    <2>1. rows[Base] \in Row /\ end[c] \in Nat
      BY <1>1, <1>3 DEF Inv, TypeOK, Ids
    <2>2. [rows[Base] EXCEPT !.expiry = end[c]] \in Row
      BY <2>1 DEF Row
    <2> QED
      BY <1>1, <1>3, <2>2, StatusAssumption DEF SetExpiry, Inv, TypeOK
  <1> QED
    BY <1>2, <1>3

\* A status goes when it is over or is cleared, and not otherwise: no order of
\* upserts, late DELETEs and write-backs loses one that is on.
THEOREM NothingIsLost == Spec => VanishesByRight
  <1> DEFINE Vanish == \A i \in Ids : rows[i] # None /\ rows'[i] = None =>
                          \/ i \in Expired(now)
                          \/ calls' # calls /\ (rows[i].logout \/ i # Base)
  <1>1. Inv /\ [Next]_vars => [Vanish]_vars
    <2> SUFFICES ASSUME Inv, Next, NEW i \in Ids, rows[i] # None, rows'[i] = None
                 PROVE  \/ i \in Expired(now)
                        \/ calls' # calls /\ (rows[i].logout \/ i # Base)
      OBVIOUS
    <2>1. CASE Tick
      BY <2>1 DEF Tick, Becomes
    <2>2. ASSUME NEW s \in sweeps, Sweep(s) PROVE i \in Expired(now)
      <3>1. s[2] \in Nat /\ s[2] <= now
        BY DEF Inv, TypeOK, SweepsPast
      <3> QED
        BY <2>2, <3>1, ExpiredGrows, WithoutTakes DEF Sweep
    <2>3. ASSUME NEW c \in Callers, Write(c) PROVE FALSE
      BY <2>3, WriteKeeps
    <2>4. ASSUME NEW c \in Callers, WriteBack(c) PROVE FALSE
      BY <2>4, WriteBackKeeps
    <2>5. ASSUME NEW c \in Callers, NEW ids, Clear(c, ids)
          PROVE  i \in ids /\ calls' # calls
      BY <2>5, WithoutTakes DEF Clear, Inv, TypeOK
    <2>6. ASSUME NEW c \in Callers, ClearUserStatusLogout(c)
          PROVE  calls' # calls /\ rows[i].logout
      BY <2>5, <2>6 DEF ClearUserStatusLogout
    <2>7. ASSUME NEW c \in Callers, NEW o \in Overlays, ClearUserStatusID(c, o)
          PROVE  (calls' # calls /\ i # Base) \/ i \in Expired(now)
      BY <2>5, <2>7, StatusAssumption DEF ClearUserStatusID
    <2>8. rows' # rows
      OBVIOUS
    <2> QED
      BY <2>1, <2>2, <2>3, <2>4, <2>6, <2>7, <2>8 DEF Next, Step, LoseSweep, ReadLatest, Upsert,
         Answer, Query, QueryCutOff, Select, Drop, Keep, Tell, FailSet, FailWriteBack,
         SetUserStatus
  <1> QED
    BY <1>1, InvCorrect, PTL DEF Spec, VanishesByRight

-----------------------------------------------------------------------------
(* The ends readers give.                                                   *)

\* The latest end c could give to the row it was given if it read the clock now.
EndBy(c) == IF pc[c] = "write" THEN end[c] ELSE now + seen[c].duration

\* A base row with an end has been given it; one that waits was told of at most
\* the end it would get now.  A reader that was not under way when an end was
\* given found the row waiting, and gives it no earlier end.
PromiseInv ==
    /\ rivals \subseteq {c \in Callers : Reads(c)}
    /\ rows[Base] # None =>
          /\ rows[Base].expiry # None => told # None
          /\ rows[Base].expiry = None /\ told # None => told <= now + rows[Base].duration
          /\ \A c \in Callers : Reads(c) /\ c \notin rivals =>
                told = None \/ (rows[Base].expiry = None /\ told <= EndBy(c))
    /\ \A c \in Callers : pc[c] = "write" => end[c] <= now + seen[c].duration

LEMMA PromiseInit == Init => PromiseInv
  BY DEF Init, PromiseInv, Reads

\* Where the rows, what was told and the readers stay, more may become rivals and
\* the base row may go.
LEMMA PromiseQuiet ==
    ASSUME Inv, PromiseInv, NEW t \in Nat, now' = t, now <= t,
           rows'[Base] # None => rows'[Base] = rows[Base],
           told' = told,
           \A d \in Callers : Reads(d)' => pc'[d] = pc[d] /\ UNCHANGED <<seen[d], end[d]>>,
           rivals' = {d \in rivals : Reads(d)'}
    PROVE  PromiseInv'
  <1> USE DEF Inv
  <1>1. ASSUME NEW d \in Callers, Reads(d)'
        PROVE  /\ Reads(d) /\ EndBy(d) <= EndBy(d)' /\ EndBy(d) \in Nat /\ EndBy(d)' \in Nat
               /\ pc'[d] = pc[d] /\ seen'[d] = seen[d] /\ end'[d] = end[d]
               /\ seen[d].duration \in Nat
    <2>1. pc'[d] = pc[d] /\ seen'[d] = seen[d] /\ end'[d] = end[d] /\ Reads(d)
      BY <1>1 DEF Reads
    <2>2. seen[d].duration \in Nat /\ (pc[d] = "write" => end[d] \in Nat) /\ now \in Nat
      BY <2>1, ReaderType DEF Reads, TypeOK
    <2> QED
      BY <2>1, <2>2 DEF EndBy
  <1>2. rivals' \subseteq {d \in Callers : Reads(d)'}
    BY DEF PromiseInv
  <1>3. ASSUME rows'[Base] # None
        PROVE  /\ rows'[Base].expiry # None => told' # None
               /\ rows'[Base].expiry = None /\ told' # None =>
                     told' <= now' + rows'[Base].duration
    <2>1. rows[Base] \in Row /\ rows'[Base] = rows[Base]
      BY <1>3 DEF TypeOK, Ids
    <2> QED
      BY <1>3, <2>1 DEF PromiseInv, TypeOK, Row
  <1>4. ASSUME rows'[Base] # None, NEW d \in Callers, Reads(d)', d \notin rivals', told' # None
        PROVE  rows'[Base].expiry = None /\ told' <= EndBy(d)'
    <2>1. Reads(d) /\ d \notin rivals
      BY <1>1, <1>4
    <2>2. rows[Base].expiry = None /\ told <= EndBy(d)
      BY <1>4, <2>1 DEF PromiseInv
    <2> QED
      BY <1>1, <1>4, <2>2 DEF TypeOK
  <1>5. ASSUME NEW d \in Callers, pc'[d] = "write" PROVE end'[d] <= now' + seen'[d].duration
    <2>1. Reads(d)'
      BY <1>5 DEF Reads
    <2>2. pc[d] = "write" /\ end[d] \in Nat /\ seen[d].duration \in Nat
      BY <1>1, <1>5, <2>1, ReaderType DEF Reads
    <2> QED
      BY <1>1, <2>1, <2>2 DEF PromiseInv, TypeOK
  <1> QED
    BY <1>2, <1>3, <1>4, <1>5 DEF PromiseInv

\* After an end has been given every reader under way is a rival.
LEMMA PromiseGiven ==
    ASSUME Inv, PromiseInv, NEW c \in Callers, NEW e, Gives(c, e), now' = now,
           ~Reads(c)',
           \A d \in Callers \ {c} : pc'[d] = pc[d] /\ UNCHANGED <<seen[d], end[d]>>,
           rows'[Base] # None =>
              /\ rows'[Base].expiry # None => e # None
              /\ rows'[Base].expiry = None /\ e # None => e <= now + rows'[Base].duration
    PROVE  PromiseInv'
  <1>1. \A d \in Callers : Reads(d)' <=> d \in rivals'
    BY DEF Gives, Reads
  <1>2. \A d \in Callers : pc'[d] = "write" => end'[d] <= now' + seen'[d].duration
    BY DEF PromiseInv, Reads
  <1> QED
    BY <1>1, <1>2 DEF PromiseInv, Gives

\* An answer: news, or nothing.
LEMMA PromiseTells ==
    ASSUME Inv, PromiseInv, NEW c \in Callers, Reads(c), NEW from, EndRead(c, from),
           NEW e \in Nat, e <= now + seen[c].duration, Tells(c, e), UNCHANGED rows
    PROVE  PromiseInv'
  <1>1. /\ now' = now /\ ~Reads(c)'
        /\ \A d \in Callers \ {c} : pc'[d] = pc[d] /\ UNCHANGED <<seen[d], end[d]>>
    BY DEF EndRead, Goes, Inv, TypeOK, Reads
  <1>2. CASE Gives(c, e) /\ rows[Base] # None /\ rows[Base].stamp = seen[c].stamp
    <2>1. rows[Base].duration = seen[c].duration /\ e # None
      BY <1>2, StatusAssumption DEF Inv, Stamped
    <2> QED
      BY <1>1, <1>2, <2>1, PromiseGiven
  <1>3. CASE told' = told /\ rivals' = rivals \ {c}
    <2>1. rivals' = {d \in rivals : Reads(d)'}
      BY <1>1, <1>3 DEF PromiseInv, Reads
    <2> QED
      BY <1>1, <1>3, <2>1, PromiseQuiet DEF Inv, TypeOK, Reads
  <1> QED
    BY <1>2, <1>3 DEF Tells

LEMMA PromiseReads ==
    ASSUME Inv, PromiseInv, NEW c \in Callers,
           \/ Query(c) \/ QueryCutOff(c) \/ Drop(c) \/ Keep(c) \/ Tell(c)
           \/ Answer(c) \/ WriteBack(c) \/ FailWriteBack(c)
    PROVE  PromiseInv'
  <1> USE DEF Inv
  <1>1. ASSUME NEW cut, Select(c, cut) PROVE PromiseInv'
    <2>1. /\ rows[Base] # None /\ rows[Base].expiry = None
          /\ Found(now, cut)[Base] = rows[Base]
      BY <1>1, SelectFinds
    <2>2. /\ UNCHANGED <<now, rows, end, told, rivals>>
          /\ pc[c] = "idle" /\ pc'[c] \in {"seen", "repair"}
          /\ seen'[c].duration = rows[Base].duration
          /\ \A d \in Callers \ {c} : pc'[d] = pc[d] /\ seen'[d] = seen[d]
      BY <1>1, <2>1 DEF Select, Goes, TypeOK
    <2>3. EndBy(c)' = now + rows[Base].duration
      BY <2>2 DEF EndBy
    <2>4. \A d \in Callers \ {c} : (Reads(d)' <=> Reads(d)) /\ EndBy(d)' = EndBy(d)
      BY <2>2 DEF EndBy, Reads
    <2> QED
      BY <2>1, <2>2, <2>3, <2>4 DEF PromiseInv, Reads
  <1>2. CASE Drop(c)
    <2>1. UNCHANGED <<now, rows, pc, seen, end, told, rivals>>
      BY <1>2 DEF Drop
    <2> QED
      BY <2>1 DEF PromiseInv, Reads, EndBy
  <1>3. CASE Keep(c)
    <2>1. /\ UNCHANGED <<now, rows, told>> /\ rivals' = rivals \ {c} /\ ~Reads(c)'
          /\ \A d \in Callers \ {c} : pc'[d] = pc[d] /\ UNCHANGED <<seen[d], end[d]>>
      BY <1>3 DEF Keep, EndRead, Goes, TypeOK, Reads
    <2>2. rivals' = {d \in rivals : Reads(d)'}
      BY <2>1 DEF PromiseInv, Reads
    <2> QED
      BY <2>1, <2>2, PromiseQuiet DEF TypeOK, Reads
  <1>4. CASE Tell(c)
    <2>1. Reads(c) /\ now + seen[c].duration \in Nat
      BY <1>4, ReaderType DEF Tell, EndRead, Goes, Reads, TypeOK
    <2> QED
      BY <1>4, <2>1, PromiseTells DEF Tell
  <1>5. CASE Answer(c)
    <2>1. /\ UNCHANGED <<now, rows, seen, told, rivals>>
          /\ pc[c] = "seen" /\ pc'[c] = "write" /\ end'[c] = now + seen[c].duration
          /\ \A d \in Callers \ {c} : pc'[d] = pc[d] /\ end'[d] = end[d]
      BY <1>5 DEF Answer, Goes, TypeOK
    <2>2. \A d \in Callers : (Reads(d)' <=> Reads(d)) /\ EndBy(d)' = EndBy(d)
      BY <2>1 DEF EndBy, Reads
    <2>3. now + seen[c].duration \in Nat
      BY <2>1, ReaderType DEF TypeOK
    <2>4. \A d \in Callers : pc'[d] = "write" => end'[d] <= now' + seen'[d].duration
      BY <2>1, <2>3 DEF PromiseInv
    <2> QED
      BY <2>1, <2>2, <2>4 DEF PromiseInv
  <1>6. CASE WriteBack(c)
    <2>1. pc[c] = "write" /\ end[c] \in Nat /\ end[c] # None
      BY <1>6, ReaderType, StatusAssumption DEF WriteBack, EndRead, Goes
    <2>2. /\ now' = now /\ Gives(c, end[c]) /\ ~Reads(c)'
          /\ \A d \in Callers \ {c} : pc'[d] = pc[d] /\ UNCHANGED <<seen[d], end[d]>>
      BY <1>6 DEF WriteBack, EndRead, Goes, TypeOK, Reads
    <2>3. rows'[Base] # None => rows'[Base].expiry = end[c]
      BY <1>6 DEF WriteBack, Becomes, SetExpiry, TypeOK, Ids, Row
    <2> QED
      BY <2>1, <2>2, <2>3, PromiseGiven
  <1>7. CASE FailWriteBack(c)
    <2>1. /\ Reads(c) /\ end[c] \in Nat /\ end[c] <= now + seen[c].duration
      BY <1>7, ReaderType DEF FailWriteBack, EndRead, Goes, Reads, PromiseInv
    <2> QED
      BY <1>7, <2>1, PromiseTells DEF FailWriteBack
  <1> QED
    BY <1>1, <1>2, <1>3, <1>4, <1>5, <1>6, <1>7 DEF Query, QueryCutOff

LEMMA PromiseWrite ==
    ASSUME Inv, PromiseInv, NEW c \in Callers, Write(c)
    PROVE  PromiseInv'
  <1> USE DEF Inv
  <1>1. /\ pc[c] = "upsert" /\ pc' = [pc EXCEPT ![c] = "idle"] /\ now' = now
        /\ rows' = [rows EXCEPT ![status[c].id] = [status[c].row EXCEPT !.stamp = stamp + 1]]
        /\ UNCHANGED <<seen, end>>
    BY DEF Write, Goes, Becomes
  <1>2. /\ ~Reads(c)' /\ ~Reads(c)
        /\ \A d \in Callers \ {c} : pc'[d] = pc[d] /\ UNCHANGED <<seen[d], end[d]>>
    BY <1>1 DEF Reads, TypeOK
  <1>3. status[c].row \in Row
    BY <1>1, StatusType
  <1>4. CASE status[c].id = Base
    <2>1. Gives(c, status[c].row.expiry)
      BY <1>4 DEF Write
    <2>2. rows'[Base].expiry = status[c].row.expiry
      BY <1>1, <1>3, <1>4 DEF TypeOK, Ids, Row
    <2> QED
      BY <1>1, <1>2, <2>1, <2>2, PromiseGiven
  <1>5. CASE status[c].id # Base
    <2>1. told' = told /\ rivals' = rivals
      BY <1>5 DEF Write
    <2>2. rows'[Base] = rows[Base]
      BY <1>1, <1>5 DEF TypeOK, Ids
    <2>3. rivals' = {d \in rivals : Reads(d)'}
      BY <1>2, <2>1 DEF PromiseInv, Reads
    <2> QED
      BY <1>1, <1>2, <2>1, <2>2, <2>3, PromiseQuiet DEF TypeOK
  <1> QED
    BY <1>4, <1>5

LEMMA PromiseNext == Inv /\ PromiseInv /\ [Next]_vars => PromiseInv'
  <1> SUFFICES ASSUME Inv, PromiseInv, [Next]_vars PROVE PromiseInv'
    OBVIOUS
  <1> USE DEF Inv
  <1>1. CASE UNCHANGED vars
    BY <1>1 DEF vars, PromiseInv, Reads, EndBy
  <1>2. ASSUME NEW ids, NEW t \in Nat, now <= t, Becomes(Without(ids), t),
               UNCHANGED <<pc, reading, promise>>
        PROVE  PromiseInv'
    <2>1. rows'[Base] # None => rows'[Base] = rows[Base]
      BY <1>2 DEF Becomes, Without, Ids
    <2>2. rivals' = {d \in rivals : Reads(d)'}
      BY <1>2 DEF PromiseInv, Reads
    <2> QED
      BY <1>2, <2>1, <2>2, PromiseQuiet DEF Becomes
  <1>3. CASE Tick
    <2>1. rows = Without({}) /\ now + 1 \in Nat /\ now <= now + 1
      BY DEF Without, TypeOK
    <2> QED
      BY <1>2, <1>3, <2>1 DEF Tick
  <1>4. ASSUME NEW s \in sweeps, Sweep(s) PROVE PromiseInv'
    BY <1>2, <1>4 DEF Sweep, TypeOK
  <1>5. ASSUME NEW s \in sweeps, LoseSweep(s) PROVE PromiseInv'
    BY <1>5 DEF LoseSweep, PromiseInv, Reads, EndBy
  <1>6. ASSUME NEW c \in Callers, NEW ids, Clear(c, ids) PROVE PromiseInv'
    BY <1>2, <1>6 DEF Clear, TypeOK
  <1>7. ASSUME NEW c \in Callers, Write(c) PROVE PromiseInv'
    BY <1>7, PromiseWrite
  <1>8. ASSUME NEW c \in Callers,
               \/ \E s \in Requests : SetUserStatus(c, s)
               \/ ReadLatest(c)
               \/ FailSet(c) /\ ~Write(c)
        PROVE  PromiseInv'
    <2>1. /\ UNCHANGED <<now, rows, reading, promise>> /\ ~Reads(c) /\ ~Reads(c)'
          /\ \A d \in Callers \ {c} : pc'[d] = pc[d]
      BY <1>8 DEF SetUserStatus, ReadLatest, FailSet, Goes, Reads, TypeOK
    <2>2. rivals' = {d \in rivals : Reads(d)'}
      BY <2>1 DEF PromiseInv, Reads
    <2> QED
      BY <2>1, <2>2, PromiseQuiet DEF TypeOK, Reads
  <1>9. ASSUME NEW c \in Callers,
               \/ Query(c) \/ QueryCutOff(c) \/ Drop(c) \/ Keep(c) \/ Tell(c)
               \/ Answer(c) \/ WriteBack(c) \/ FailWriteBack(c)
        PROVE  PromiseInv'
    BY <1>9, PromiseReads
  <1> QED
    BY <1>1, <1>3, <1>4, <1>5, <1>6, <1>7, <1>8, <1>9
       DEF Next, Step, Upsert, ClearUserStatusLogout, ClearUserStatusID

\* What was told of the end of the base row stands: a reader that was not under way
\* when that was told is about to write nothing earlier.
THEOREM PromisesStand == Spec => []PromiseInv
  BY PromiseInit, PromiseNext, InvCorrect, PTL DEF Spec

\* Readers bring no row back.  They fix the end of a waiting base once, and not
\* before an end they or others have answered with: only a reader that was under
\* way when that end was given may still write another.
THEOREM ReadingIsHarmless == Spec => ReadersAreHarmless
  <1> DEFINE Harmless ==
         \A i \in Ids : stamp' = stamp /\ rows'[i] # None =>
            /\ rows[i] # None
            /\ rows'[i].expiry # rows[i].expiry =>
                  /\ i = Base
                  /\ \E c \in Callers :
                        /\ pc[c] = "write" /\ pc'[c] = "idle"
                        /\ \/ c \in rivals
                           \/ rows[i].expiry = None
                              /\ (told = None \/ told <= rows'[i].expiry)
  <1>1. Inv /\ PromiseInv /\ [Next]_vars => [Harmless]_vars
    <2> SUFFICES ASSUME Inv, PromiseInv, Next, NEW i \in Ids, stamp' = stamp,
                        rows'[i] # None, rows'[i] # rows[i]
                 PROVE  /\ rows[i] # None
                        /\ i = Base
                        /\ \E c \in Callers :
                              /\ pc[c] = "write" /\ pc'[c] = "idle"
                              /\ \/ c \in rivals
                                 \/ rows[i].expiry = None
                                    /\ (told = None \/ told <= rows'[i].expiry)
      OBVIOUS
    <2>1. ASSUME NEW c \in Callers, WriteBack(c)
          PROVE  /\ rows[i] # None
                 /\ i = Base
                 /\ pc[c] = "write" /\ pc'[c] = "idle"
                 /\ \/ c \in rivals
                    \/ rows[i].expiry = None
                       /\ (told = None \/ told <= rows'[i].expiry)
      <3>1. pc[c] = "write" /\ pc'[c] = "idle"
        BY <2>1 DEF WriteBack, EndRead, Goes, Inv, TypeOK
      <3>2. rows[i] # None /\ i = Base
        BY <2>1, WriteBackKeeps
      <3>3. rows'[Base].expiry = end[c]
        BY <2>1, <3>2 DEF WriteBack, Becomes, SetExpiry, Inv, TypeOK, Row
      <3>4. c \in rivals \/ told = None \/ (rows[Base].expiry = None /\ told <= end[c])
        BY <3>1, <3>2 DEF PromiseInv, Reads, EndBy
      <3>5. told = None => rows[Base].expiry = None
        BY <3>2 DEF PromiseInv
      <3> QED
        BY <3>1, <3>2, <3>3, <3>4, <3>5
    <2>2. ASSUME NEW ids, NEW t, Becomes(Without(ids), t) PROVE FALSE
      BY <2>2 DEF Becomes, Without
    <2>3. ASSUME NEW c \in Callers, Write(c) PROVE FALSE
      BY <2>3 DEF Write, Inv, TypeOK
    <2>4. CASE Tick
      BY <2>4 DEF Tick, Becomes
    <2>5. CASE \E s \in sweeps : Sweep(s)
      BY <2>2, <2>5 DEF Sweep
    <2>6. CASE \E c \in Callers : \/ ClearUserStatusLogout(c)
                                 \/ \E o \in Overlays : ClearUserStatusID(c, o)
      BY <2>2, <2>6 DEF ClearUserStatusLogout, ClearUserStatusID, Clear
    <2>7. rows' # rows
      OBVIOUS
    <2> QED
      BY <2>1, <2>3, <2>4, <2>5, <2>6, <2>7 DEF Next, Step, LoseSweep, ReadLatest, Upsert,
         Answer, Query, QueryCutOff, Select, Drop, Keep, Tell, FailSet, FailWriteBack,
         EndRead, SetUserStatus
  <1> QED
    BY <1>1, InvCorrect, PromisesStand, PTL DEF Spec, ReadersAreHarmless

-----------------------------------------------------------------------------
(* The queue of overlays.                                                   *)

\* What a caller has read of the overlays it is going to queue behind.
Behind(c) ==
    \A o \in Overlays :
        rows[o] # None /\ rows[o].expiry # None /\ rows[o].stamp <= asOf[c] =>
            rows[o].expiry + status[c].row.duration <= status[c].row.expiry

QueueInv ==
    /\ \A c \in Callers : asOf[c] # None => pc[c] = "upsert" /\ asOf[c] <= stamp /\ Behind(c)
    /\ QueueInOrder

\* Steps that add to no queue.
LEMMA QueueQuiet ==
    ASSUME QueueInv, UNCHANGED stamp, queued' \subseteq queued,
           queued \subseteq Ids,
           \A o \in Overlays : rows'[o] # None => rows'[o] = rows[o],
           \A d \in Callers : asOf'[d] # None =>
              /\ asOf'[d] = asOf[d] /\ pc'[d] = pc[d]
              /\ status'[d] = status[d]
    PROVE  QueueInv'
  <1>1. ASSUME NEW c \in Callers, asOf'[c] # None
        PROVE  pc'[c] = "upsert" /\ asOf'[c] <= stamp' /\ Behind(c)'
    BY <1>1 DEF QueueInv, Behind
  <1>2. QueueInOrder'
    BY DEF QueueInv, QueueInOrder, Ids
  <1> QED
    BY <1>1, <1>2 DEF QueueInv

LEMMA QueueReadLatest ==
    ASSUME Inv, QueueInv, NEW c \in Callers, ReadLatest(c)
    PROVE  QueueInv'
  <1> USE DEF Inv
  <1>1. /\ UNCHANGED <<rows, stamp, queued>>
        /\ pc[c] = "latest" /\ pc' = [pc EXCEPT ![c] = "upsert"]
        /\ asOf' = [asOf EXCEPT ![c] = stamp]
    BY DEF ReadLatest, Goes
  <1>2. status[c] \in Written
    BY <1>1, StatusType
  <1>3. \A d \in Callers \ {c} : status'[d] = status[d]
    BY DEF ReadLatest, TypeOK
  <1>4. ASSUME NEW o \in Overlays, rows[o] # None, rows[o].expiry # None
        PROVE  rows[o].expiry + status'[c].row.duration <= status'[c].row.expiry
    <2>1. o \in Ending /\ Ending # {}
      BY <1>4 DEF Ending
    <2>2. PICK p \in Latest :
             status' = [status EXCEPT
                ![c].row.after = p,
                ![c].row.expiry = rows[p].expiry + status[c].row.duration]
      BY <2>1 DEF ReadLatest
    <2>3. /\ p \in Overlays /\ rows[p] \in Row /\ rows[p].expiry \in Nat
          /\ rows[o] \in Row /\ rows[o].expiry \in Nat
          /\ rows[o].expiry <= rows[p].expiry
      BY <1>4, <2>1 DEF Latest, Ending, TypeOK, Ids, Row
    <2>4. /\ status'[c].row.expiry = rows[p].expiry + status[c].row.duration
          /\ status'[c].row.duration = status[c].row.duration
          /\ status[c].row.duration \in Nat
      BY <1>2, <2>2 DEF TypeOK, Written, Row
    <2> QED
      BY <2>3, <2>4
  <1>5. ASSUME NEW d \in Callers, asOf'[d] # None
        PROVE  pc'[d] = "upsert" /\ asOf'[d] <= stamp' /\ Behind(d)'
    <2>1. CASE d = c
      BY <1>1, <1>4, <2>1 DEF Behind, TypeOK
    <2>2. CASE d # c
      BY <1>1, <1>3, <1>5, <2>2 DEF QueueInv, Behind, TypeOK
    <2> QED
      BY <2>1, <2>2
  <1>6. QueueInOrder'
    BY <1>1 DEF QueueInv, QueueInOrder
  <1> QED
    BY <1>5, <1>6 DEF QueueInv

LEMMA QueueWrite ==
    ASSUME Inv, QueueInv, NEW c \in Callers, Write(c)
    PROVE  QueueInv'
  <1> DEFINE id == status[c].id
             row == [status[c].row EXCEPT !.stamp = stamp + 1]
  <1> USE DEF Inv
  <1>1. /\ pc[c] = "upsert" /\ pc' = [pc EXCEPT ![c] = "idle"]
        /\ rows' = [rows EXCEPT ![id] = row] /\ stamp' = stamp + 1
        /\ status' = [status EXCEPT ![c] = None] /\ asOf' = [asOf EXCEPT ![c] = None]
    BY DEF Write, Goes, Becomes
  <1>2. id \in Ids /\ status[c].row \in Row
    BY <1>1, StatusType
  <1>3. /\ row.stamp = stamp + 1 /\ row.duration = status[c].row.duration
        /\ row.expiry = status[c].row.expiry
    BY <1>2 DEF Row, TypeOK
  <1> HIDE DEF row
  <1>4. rows'[id] = row /\ \A i \in Ids : i # id => rows'[i] = rows[i]
    BY <1>1, <1>2 DEF TypeOK
  <1>5. \A i \in Ids : rows[i] # None => rows[i].stamp \in Nat /\ rows[i].stamp <= stamp
    BY DEF TypeOK, Row, Stamped
  <1>6. ASSUME NEW d \in Callers, asOf'[d] # None
        PROVE  pc'[d] = "upsert" /\ asOf'[d] <= stamp' /\ Behind(d)'
    <2>1. d # c /\ asOf'[d] = asOf[d] /\ pc'[d] = pc[d] /\ status'[d] = status[d]
      BY <1>1, <1>6 DEF TypeOK
    <2>2. asOf[d] \in Nat /\ pc[d] = "upsert" /\ asOf[d] <= stamp /\ Behind(d)
      BY <1>6, <2>1 DEF QueueInv, TypeOK
    <2>3. asOf'[d] <= stamp' /\ stamp \in Nat
      BY <1>1, <2>1, <2>2 DEF TypeOK
    <2>4. ASSUME NEW o \in Overlays, rows'[o] # None, rows'[o].stamp <= asOf'[d]
          PROVE  rows'[o] = rows[o]
      BY <1>3, <1>4, <2>1, <2>2, <2>3, <2>4 DEF Ids
    <2> QED
      BY <2>1, <2>2, <2>3, <2>4 DEF Behind
  <1>7. QueueInOrder'
    <2> SUFFICES ASSUME NEW i \in queued' \ {Base}, NEW o \in Overlays,
                        rows'[i] # None, rows'[o] # None,
                        rows'[o].stamp < rows'[i].stamp, rows'[o].expiry # None
                 PROVE  rows'[o].expiry + rows'[i].duration <= rows'[i].expiry
      BY DEF QueueInOrder
    <2>1. i \in Ids /\ o \in Ids /\ (i # id => i \in queued)
      BY <1>2 DEF Write, TypeOK, Ids
    <2>2. o # id
      BY <1>3, <1>4, <1>5, <2>1 DEF TypeOK
    <2>3. CASE i # id
      BY <1>4, <2>1, <2>2, <2>3 DEF QueueInv, QueueInOrder
    <2>4. CASE i = id
      <3>1. asOf[c] # None /\ ~(rows[o].stamp > asOf[c])
        BY <1>4, <2>1, <2>2, <2>4 DEF Write
      <3>2. asOf[c] \in Nat /\ Behind(c)
        BY <3>1 DEF QueueInv, TypeOK
      <3>3. rows[o].stamp <= asOf[c]
        BY <1>4, <1>5, <2>1, <2>2, <3>1, <3>2
      <3> QED
        BY <1>3, <1>4, <2>1, <2>2, <2>4, <3>2, <3>3 DEF Behind
    <2> QED
      BY <2>3, <2>4
  <1> QED
    BY <1>6, <1>7 DEF QueueInv

LEMMA QueueNext == Inv /\ QueueInv /\ [Next]_vars => QueueInv'
  <1> SUFFICES ASSUME Inv, QueueInv, [Next]_vars PROVE QueueInv'
    OBVIOUS
  <1> queued \subseteq Ids
    BY DEF Inv, TypeOK
  <1>1. CASE UNCHANGED vars
    BY <1>1, QueueQuiet DEF vars
  <1>2. ASSUME NEW ids, NEW t, Becomes(Without(ids), t),
               UNCHANGED <<stamp, pc, status, asOf, queued>>
        PROVE  QueueInv'
    <2>1. \A o \in Overlays : rows'[o] # None => rows'[o] = rows[o]
      BY <1>2 DEF Becomes, Without, Ids
    <2> QED
      BY <1>2, <2>1, QueueQuiet
  <1>3. CASE Tick
    BY <1>3, QueueQuiet DEF Tick, Becomes
  <1>4. ASSUME NEW s \in sweeps, Sweep(s) \/ LoseSweep(s) PROVE QueueInv'
    BY <1>2, <1>4, QueueQuiet DEF Sweep, LoseSweep
  <1>5. ASSUME NEW c \in Callers, NEW ids, Clear(c, ids) PROVE QueueInv'
    BY <1>2, <1>5 DEF Clear
  <1>6. ASSUME NEW c \in Callers, Write(c) PROVE QueueInv'
    BY <1>6, QueueWrite
  <1>7. ASSUME NEW c \in Callers, ReadLatest(c) PROVE QueueInv'
    BY <1>7, QueueReadLatest
  <1>8. ASSUME NEW c \in Callers,
               \/ Query(c) \/ QueryCutOff(c) \/ Drop(c) \/ Keep(c) \/ Tell(c)
               \/ Answer(c) \/ WriteBack(c) \/ FailWriteBack(c)
               \/ \E s \in Requests : SetUserStatus(c, s)
        PROVE  QueueInv'
    <2>1. /\ UNCHANGED <<stamp, asOf, queued>> /\ pc[c] # "upsert"
          /\ \A d \in Callers \ {c} : pc'[d] = pc[d] /\ status'[d] = status[d]
      BY <1>8 DEF Query, QueryCutOff, Select, Drop, Keep, Tell, Answer, WriteBack,
                  FailWriteBack, EndRead, SetUserStatus, Goes, Inv, TypeOK
    <2>2. asOf[c] = None
      BY <2>1 DEF QueueInv
    <2>3. \A o \in Overlays : rows'[o] = rows[o]
      BY <1>8, WriteBackKeeps, StatusAssumption
         DEF Query, QueryCutOff, Select, Drop, Keep, Tell, Answer, FailWriteBack,
             SetUserStatus, Ids
    <2> QED
      BY <2>1, <2>2, <2>3, QueueQuiet
  <1>9. ASSUME NEW c \in Callers, FailSet(c) PROVE QueueInv'
    <2>1. CASE ~Write(c)
      <3>1. /\ UNCHANGED <<rows, stamp, queued>>
            /\ pc' = [pc EXCEPT ![c] = "idle"]
            /\ status' = [status EXCEPT ![c] = None] /\ asOf' = [asOf EXCEPT ![c] = None]
        BY <1>9, <2>1 DEF FailSet
      <3>2. \A d \in Callers : asOf'[d] # None =>
               asOf'[d] = asOf[d] /\ pc'[d] = pc[d] /\ status'[d] = status[d]
        BY <3>1 DEF Inv, TypeOK
      <3> QED
        BY <3>1, <3>2, QueueQuiet
    <2> QED
      BY <1>6, <2>1
  <1> QED
    BY <1>1, <1>3, <1>4, <1>5, <1>6, <1>7, <1>8, <1>9
       DEF Next, Step, Upsert, ClearUserStatusLogout, ClearUserStatusID

\* Overlays that queue up follow one another, unless one was set between the SELECT
\* and the upsert of another, whatever else happens in between.
THEOREM QueueStands == Spec => []QueueInOrder
  <1>1. Init => QueueInv
    BY DEF Init, QueueInv, QueueInOrder
  <1> QED
    BY <1>1, QueueNext, InvCorrect, PTL DEF Spec, QueueInv

=============================================================================
