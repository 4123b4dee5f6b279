----------------------------- MODULE UserStatus -----------------------------
(***************************************************************************)
(* The statuses of one user of one workspace (storage/sql/status.go and    *)
(* Repair of rubix/status.go): a base status, whose row has the id "", and *)
(* overlays on top of it.  A row ends at its expiry; it may wait for the   *)
(* overlays to be over, follow another overlay, or queue up behind the     *)
(* latest one.  Nothing runs at the end of a row: readers leave it out,    *)
(* and whoever sets or clears a status deletes it.  A base that waits gets *)
(* its expiry from the first reader that finds it alone.                   *)
(*                                                                         *)
(* Statements of concurrent calls interleave with each other, with the     *)
(* goroutine SetUserStatus leaves behind, and with the clock, which Repair *)
(* reads anew for each row.  The end Repair gives to an overlay goes into  *)
(* the answer alone and is left out.  update() of the writers is left to   *)
(* EntityTables.                                                           *)
(***************************************************************************)
EXTENDS Naturals

CONSTANTS
    Callers,
    Base,           \* the id ""
    Overlays,       \* ids of overlays
    None,           \* NULL, the zero time, and a row that is not there
    Requests,       \* the statuses callers may set
    Contents,       \* tables earlier calls left behind
    MaxTime,        \* bound: the clock
    LastSet,        \* bound: the time by which calls have set and cleared
    MaxCalls,       \* bound: calls that set or clear
    MaxFaults       \* bound: failed statements

Ids == {Base} \cup Overlays
Markers == {"none", "latest", "overlay"}    \* AfterID "", "latest", OverlayAfterID
Afters == Markers \cup Overlays

\* What a caller asks for; `lasts` is the time until its ExpiryTime, or None.
Status == [id : Ids, after : Afters, lasts : Nat \cup {None}, duration : Nat,
           logout : BOOLEAN]

\* A row; `stamp` is `applied`, as the number of the statement that wrote it.
Row == [expiry : Nat \cup {None}, after : Afters, duration : Nat,
        logout : BOOLEAN, stamp : Nat]
Written == [id : Ids, row : Row]

\* What a reader keeps of the base row; `whole` is FALSE if the cursor broke.
Kept == [stamp : Nat, duration : Nat, whole : BOOLEAN]

ASSUME StatusAssumption ==
    /\ Base \notin Overlays /\ None \notin Nat
    /\ Markers \cap Overlays = {}
    /\ None \notin Row \cup Written \cup Kept
    /\ MaxTime \in Nat /\ LastSet \in Nat /\ MaxCalls \in Nat /\ MaxFaults \in Nat

ASSUME RequestAssumption ==
    /\ Requests \subseteq Status
    /\ Contents \subseteq {tab \in [Ids -> Row \cup {None}] :
          \A i \in Ids : tab[i] # None => tab[i].stamp = 0}

VARIABLES
    now,
    rows,      \* the table, None for no row
    stamp,     \* upserts so far
    pc,        \* "idle", "latest", "upsert", "repair", "seen", "write"
    status,    \* the row a caller is about to write, with its id, or None
    seen,      \* of the base row a reader found waiting, or None
    left,      \* overlays it found and Repair has still to look at: <<id, expiry>>
    end,       \* the expiry it is about to write back, or None
    sweeps,    \* goroutines with a DELETE to run: <<stamp, cutoff>>
    asOf,      \* history: `stamp` when a caller read the latest overlay, or None
    alone,     \* history: the base row was there at a time without overlays
    misled,    \* history: the base row took the write-back of a reader that had
               \* been given another row, or not all the rows there were
    told,      \* history: the last end the base row was given, by its setter, by
               \* a write-back or in the answer to a reader, or None
    rivals,    \* history: the readers that were under way then, and still are
    queued,    \* history: rows that queued behind what was still the latest
    calls, faults

reading == <<seen, left, end>>
promise == <<told, rivals>>
vars == <<now, rows, stamp, pc, status, seen, left, end, sweeps,
          asOf, alone, misled, told, rivals, queued, calls, faults>>

-----------------------------------------------------------------------------
(* Rows and time.                                                           *)

\* WHERE expiry < t AND expiry IS NOT NULL
Expired(t) == {i \in Ids : rows[i] # None /\ rows[i].expiry # None /\ rows[i].expiry < t}

\* WHERE expiry IS NULL OR expiry > t
Current(tab, t) ==
    {i \in Ids : tab[i] # None /\ (tab[i].expiry = None \/ tab[i].expiry > t)}

Without(ids) == [i \in Ids |-> IF i \in ids THEN None ELSE rows[i]]

\* The overlays that have an end, and those of them that end last.
Ending == {o \in Overlays : rows[o] # None /\ rows[o].expiry # None}

\* Mutant of Latest: ORDER BY expiry without DESC.
LatestAscending == {o \in Ending : \A p \in Ending : rows[o].expiry <= rows[p].expiry}

Latest == {o \in Ending : \A p \in Ending : rows[p].expiry <= rows[o].expiry}

Waits(tab) == tab[Base] # None /\ tab[Base].after = "overlay" /\ tab[Base].expiry = None

\* The table becomes `new` and the clock `t`.
Becomes(new, t) ==
    /\ rows' = new /\ now' = t
    /\ alone' = /\ new[Base] # None
                /\ \/ Current(new, t) \cap Overlays = {}
                   \/ alone /\ rows[Base] # None /\ rows[Base].stamp = new[Base].stamp

Init ==
    /\ now = 0 /\ rows \in Contents /\ stamp = 0
    /\ pc = [c \in Callers |-> "idle"]
    /\ status = [c \in Callers |-> None]
    /\ seen = [c \in Callers |-> None]
    /\ left = [c \in Callers |-> {}]
    /\ end = [c \in Callers |-> None]
    /\ sweeps = {}
    /\ asOf = [c \in Callers |-> None]
    /\ alone = (/\ rows[Base] # None
                /\ rows[Base].expiry # None \/ Current(rows, 0) \cap Overlays = {})
    /\ misled = FALSE /\ queued = {}
    /\ told = (IF rows[Base] = None THEN None ELSE rows[Base].expiry) /\ rivals = {}
    /\ calls = 0 /\ faults = 0

Goes(c, from, to) == pc[c] = from /\ pc' = [pc EXCEPT ![c] = to]

\* The base row is given the end e, by c.
Gives(c, e) ==
    /\ told' = e
    /\ rivals' = {d \in Callers \ {c} : pc[d] \in {"repair", "seen", "write"}}

-----------------------------------------------------------------------------
(* SetUserStatus.                                                           *)

\* A status with an ExpiryTime and no duration lasts until then.
SetUserStatus(c, s) ==
    LET expiry == IF s.lasts = None \/ s.after = "overlay" THEN None ELSE now + s.lasts
        duration == IF s.lasts # None /\ s.duration = 0 THEN s.lasts ELSE s.duration
    IN  /\ calls < MaxCalls /\ now <= LastSet
        /\ calls' = calls + 1
        /\ Goes(c, "idle", IF s.after = "latest" THEN "latest" ELSE "upsert")
        /\ status' = [status EXCEPT ![c] =
              [id |-> s.id,
               row |-> [expiry |-> expiry, after |-> s.after, duration |-> duration,
                        logout |-> s.logout, stamp |-> 0]]]
        /\ UNCHANGED <<now, rows, stamp, reading, sweeps, asOf, alone, misled, promise,
                       queued, faults>>

\* AfterID "latest": start when the overlay that ends last is over, or now.
ReadLatest(c) ==
    /\ Goes(c, "latest", "upsert")
    /\ \/ /\ Ending = {}
          /\ status' = [status EXCEPT ![c].row.expiry = now + status[c].row.duration]
       \/ \E o \in Latest :
             status' = [status EXCEPT
                ![c].row.after = o,
                ![c].row.expiry = rows[o].expiry + status[c].row.duration]
    /\ asOf' = [asOf EXCEPT ![c] = stamp]
    /\ UNCHANGED <<now, rows, stamp, reading, sweeps, alone, misled, promise, queued,
                   calls, faults>>

\* The upsert of c's row.
Write(c) ==
    LET id == status[c].id
        changed == \E o \in Overlays : rows[o] # None /\ rows[o].stamp > asOf[c]
    IN  /\ Goes(c, "upsert", "idle")
        /\ stamp' = stamp + 1
        /\ Becomes([rows EXCEPT ![id] = [status[c].row EXCEPT !.stamp = stamp + 1]], now)
        /\ misled' = (misled /\ id # Base)
        /\ IF id = Base THEN Gives(c, status[c].row.expiry) ELSE UNCHANGED promise
        /\ queued' = IF asOf[c] # None /\ ~changed THEN queued \cup {id} ELSE queued \ {id}
        /\ status' = [status EXCEPT ![c] = None]
        /\ asOf' = [asOf EXCEPT ![c] = None]
        /\ UNCHANGED <<reading, calls>>

\* Mutant of Upsert: the goroutine is given the end of the new status.
UpsertSweepingAhead(c) ==
    /\ Write(c)
    /\ sweeps' = sweeps \cup
          {<<stamp', IF status[c].row.expiry = None THEN now ELSE status[c].row.expiry>>}
    /\ UNCHANGED faults

\* The goroutine is given the time at which it is started.
Upsert(c) ==
    /\ Write(c)
    /\ sweeps' = sweeps \cup {<<stamp', now>>}
    /\ UNCHANGED faults

\* The SELECT fails, or the upsert does, or its answer is lost.
FailSet(c) ==
    /\ faults < MaxFaults
    /\ faults' = faults + 1
    /\ UNCHANGED sweeps
    /\ \/ /\ pc[c] \in {"latest", "upsert"}
          /\ pc' = [pc EXCEPT ![c] = "idle"]
          /\ status' = [status EXCEPT ![c] = None]
          /\ asOf' = [asOf EXCEPT ![c] = None]
          /\ UNCHANGED <<now, rows, stamp, reading, alone, misled, promise, queued, calls>>
       \/ Write(c)

\* The DELETE of a goroutine, whenever it is scheduled.
Sweep(s) ==
    /\ s \in sweeps
    /\ sweeps' = sweeps \ {s}
    /\ Becomes(Without(Expired(s[2])), now)
    /\ UNCHANGED <<stamp, pc, status, reading, asOf, misled, promise, queued, calls, faults>>

\* It fails, which nobody hears of, or its process stops first.
LoseSweep(s) ==
    /\ s \in sweeps /\ faults < MaxFaults
    /\ sweeps' = sweeps \ {s} /\ faults' = faults + 1
    /\ UNCHANGED <<now, rows, stamp, pc, status, reading, asOf, alone, misled, promise,
                   queued, calls>>

-----------------------------------------------------------------------------
(* Clearing, one statement each.                                            *)

Clear(c, ids) ==
    /\ pc[c] = "idle" /\ calls < MaxCalls /\ now <= LastSet
    /\ calls' = calls + 1
    /\ Becomes(Without(ids), now)
    /\ UNCHANGED <<stamp, pc, status, reading, sweeps, asOf, misled, promise, queued,
                   faults>>

ClearUserStatusLogout(c) == Clear(c, {i \in Ids : rows[i] # None /\ rows[i].logout})

\* The id "" is refused.
ClearUserStatusID(c, o) == Clear(c, {o} \cup Expired(now))

-----------------------------------------------------------------------------
(* GetUserStatus.                                                           *)

\* Mutant of Found: rows of any age, for Repair to sort out.
FoundAll(t, cut) == Without(cut)

\* The rows of the SELECT, of which the cursor may not give those in `cut`.
Found(t, cut) == Without((Ids \ Current(rows, t)) \cup cut)

\* Mutant of WritesExpiry: the overlays are not asked for.
WritesExpiryBeside(tab) == Waits(tab)

\* Mutant of WritesExpiry: it is not asked whether the base has an end.
WritesExpiryAnew(tab) ==
    /\ tab[Base] # None /\ tab[Base].after = "overlay"
    /\ \A o \in Overlays : tab[o] = None

WritesExpiry(tab) == Waits(tab) /\ \A o \in Overlays : tab[o] = None

\* Repair may find that the overlays of the SELECT are over by now, and give
\* the base an end that nobody writes.
MayOutlast(tab) ==
    /\ Waits(tab) /\ tab[Base].duration > 0
    /\ \E o \in Overlays : tab[o] # None
    /\ \A o \in Overlays : tab[o] # None => tab[o].expiry # None

\* The SELECT.  A reader that gives the base no end leaves no trace.
Select(c, cut) ==
    LET tab == Found(now, cut) IN
    /\ \/ WritesExpiry(tab) /\ Goes(c, "idle", "seen")
       \/ MayOutlast(tab) /\ Goes(c, "idle", "repair")
    /\ seen' = [seen EXCEPT ![c] = [stamp |-> tab[Base].stamp, whole |-> cut = {},
                                    duration |-> tab[Base].duration]]
    /\ left' = [left EXCEPT ![c] =
          {<<o, tab[o].expiry>> : o \in {p \in Overlays : tab[p] # None}}]
    /\ UNCHANGED <<now, rows, stamp, status, end, sweeps, asOf, alone, misled, promise,
                   queued, calls>>

Query(c) == Select(c, {}) /\ UNCHANGED faults

\* The cursor breaks: nobody asks rows.Err(), and what has come is all there is.
QueryCutOff(c) ==
    /\ faults < MaxFaults /\ faults' = faults + 1
    /\ \E cut \in SUBSET (Current(rows, now) \cap Overlays) \ {{}} : Select(c, cut)

\* Repair leaves out an overlay that is over when it comes to it,
Drop(c) ==
    /\ pc[c] = "repair"
    /\ \E row \in left[c] :
          row[2] < now /\ left' = [left EXCEPT ![c] = @ \ {row}]
    /\ UNCHANGED <<now, rows, stamp, pc, status, seen, end, sweeps, asOf, alone, misled,
                   promise, queued, calls, faults>>

EndRead(c, from) ==
    /\ Goes(c, from, "idle")
    /\ seen' = [seen EXCEPT ![c] = None]
    /\ left' = [left EXCEPT ![c] = {}]
    /\ end' = [end EXCEPT ![c] = None]
    /\ UNCHANGED <<now, stamp, status, sweeps, asOf, queued, calls>>

\* and with one that is not the base gets no end.
Keep(c) ==
    /\ EndRead(c, "repair")
    /\ \E row \in left[c] : row[2] >= now
    /\ rivals' = rivals \ {c}
    /\ UNCHANGED <<rows, alone, misled, told, faults>>

\* c answers with an end for the base row it was given: news if the row is still
\* there, and no answer gave it a later one.
Tells(c, e) ==
    IF /\ rows[Base] # None /\ rows[Base].stamp = seen[c].stamp
       /\ told = None \/ told <= e
    THEN Gives(c, e) ELSE told' = told /\ rivals' = rivals \ {c}

\* With none it gets one from now, in the answer.
Tell(c) ==
    /\ EndRead(c, "repair")
    /\ left[c] = {}
    /\ Tells(c, now + seen[c].duration)
    /\ UNCHANGED <<rows, alone, misled, faults>>

\* An end that is going to be written is from a clock reading of its own.
Answer(c) ==
    /\ Goes(c, "seen", "write")
    /\ end' = [end EXCEPT ![c] = now + seen[c].duration]
    /\ UNCHANGED <<now, rows, stamp, status, seen, left, sweeps, asOf, alone, misled,
                   promise, queued, calls, faults>>

\* setExpiry: the row with the id "", if there is one, whichever it is by now.
SetExpiry(c) ==
    IF rows[Base] = None THEN rows ELSE [rows EXCEPT ![Base].expiry = end[c]]

WriteBack(c) ==
    /\ EndRead(c, "write")
    /\ Becomes(SetExpiry(c), now)
    /\ misled' = \/ misled
                 \/ /\ rows[Base] # None
                    /\ (rows[Base].stamp # seen[c].stamp \/ ~seen[c].whole)
    /\ Gives(c, end[c])
    /\ UNCHANGED faults

\* Its error is dropped, and the answer given all the same.
FailWriteBack(c) ==
    /\ EndRead(c, "write") /\ faults < MaxFaults
    /\ faults' = faults + 1
    /\ Tells(c, end[c])
    /\ UNCHANGED <<rows, alone, misled>>

-----------------------------------------------------------------------------
Tick ==
    /\ now < MaxTime
    /\ now >= LastSet => \A c \in Callers : pc[c] # "latest"
    /\ Becomes(rows, now + 1)
    /\ UNCHANGED <<stamp, pc, status, reading, sweeps, asOf, misled, promise, queued,
                   calls, faults>>

\* What a call does once it has begun.
Step(c) == \/ ReadLatest(c) \/ Upsert(c)
           \/ Drop(c) \/ Keep(c) \/ Tell(c) \/ Answer(c) \/ WriteBack(c)

Next ==
    \/ Tick
    \/ \E s \in sweeps : Sweep(s) \/ LoseSweep(s)
    \/ \E c \in Callers :
          \/ Step(c) \/ Query(c) \/ QueryCutOff(c) \/ FailSet(c) \/ FailWriteBack(c)
          \/ \E s \in Requests : SetUserStatus(c, s)
          \/ ClearUserStatusLogout(c)
          \/ \E o \in Overlays : ClearUserStatusID(c, o)

Fairness == WF_vars(Tick) /\ \A c \in Callers : WF_vars(Step(c))

Spec == Init /\ [][Next]_vars /\ Fairness

-----------------------------------------------------------------------------
(* Properties.                                                              *)

TypeOK ==
    /\ now \in Nat /\ stamp \in Nat
    /\ rows \in [Ids -> Row \cup {None}]
    /\ pc \in [Callers -> {"idle", "latest", "upsert", "repair", "seen", "write"}]
    /\ status \in [Callers -> Written \cup {None}]
    /\ seen \in [Callers -> Kept \cup {None}]
    /\ left \in [Callers -> SUBSET (Overlays \X Nat)]
    /\ end \in [Callers -> Nat \cup {None}]
    /\ sweeps \subseteq Nat \X Nat
    /\ asOf \in [Callers -> Nat \cup {None}]
    /\ alone \in BOOLEAN /\ misled \in BOOLEAN /\ queued \subseteq Ids
    /\ told \in Nat \cup {None} /\ rivals \subseteq Callers
    /\ calls \in Nat /\ faults \in Nat
    /\ \A c \in Callers :
          /\ pc[c] \in {"latest", "upsert"} => status[c] # None
          /\ pc[c] \in {"repair", "seen", "write"} => seen[c] # None
          /\ pc[c] = "write" => end[c] # None

\* The end of a base status that waits for the overlays is fixed only if there
\* was a time, since it was set, at which none was on: however readers, setters
\* and the clock interleave, it does not run out under an overlay.  Excused is a
\* row hit by the write-back of a reader that had read the row before it, or
\* whose cursor ended before the overlays had come (GetUserStatus never asks
\* rows.Err(), setExpiry never which row it writes).
BaseWaits ==
    rows[Base] # None /\ rows[Base].after = "overlay" /\ rows[Base].expiry # None =>
        alone \/ misled

\* Overlays set with AfterID "latest" follow one another: one begins when all
\* that were there before it are over.  It is promised only if no overlay was
\* set between its SELECT of the latest and its upsert.
QueueInOrder ==
    \A i \in queued \ {Base}, o \in Overlays :
        rows[i] # None /\ rows[o] # None /\ rows[o].stamp < rows[i].stamp
            /\ rows[o].expiry # None =>
        rows[o].expiry + rows[i].duration <= rows[i].expiry

\* A status disappears when it is over, or by a call that clears; the DELETE that
\* SetUserStatus leaves behind takes, however late it runs, nothing else.
VanishesByRight ==
    [][\A i \in Ids : rows[i] # None /\ rows'[i] = None =>
          \/ i \in Expired(now)
          \/ calls' # calls /\ (rows[i].logout \/ i # Base)]_vars

\* Readers bring nothing back: what was cleared stays cleared until it is set
\* again.  The end of the base status is fixed once, and not before an end that
\* any answer has given: a reader moves an end that is in the table, or fixes one
\* before what was told, only if it was under way already when that end was given.
ReadersAreHarmless ==
    [][\A i \in Ids : stamp' = stamp /\ rows'[i] # None =>
          /\ rows[i] # None
          /\ rows'[i].expiry # rows[i].expiry =>
                /\ i = Base
                /\ \E c \in Callers :
                      /\ pc[c] = "write" /\ pc'[c] = "idle"
                      /\ \/ c \in rivals
                         \/ rows[i].expiry = None
                            /\ (told = None \/ told <= rows'[i].expiry)]_vars

\* An overlay without an end stays until it is cleared.
Endless == \E o \in Overlays : rows[o] # None /\ rows[o].expiry = None

\* Somebody keeps asking for the status.
Polled == \E c \in Callers : WF_vars(Query(c))

\* If somebody keeps asking, a base status that waits for the overlays gets its
\* end, or is replaced or cleared, unless an overlay without an end stays.
WaitingEnds == Polled => (Waits(rows) ~> (~Waits(rows) \/ []Endless))
=============================================================================
