------------------------- MODULE EntityTablesProofs -------------------------
(***************************************************************************)
(* Proofs about EntityTables for any clients, processes, records and       *)
(* values, however RowsAffected counts, and any number of calls and        *)
(* failures.                                                               *)
(***************************************************************************)
EXTENDS EntityTables, TLAPS

Results == {"ok", "exists", "notfound", "error"}

LEMMA RequestType ==
    ASSUME NEW r \in Request
    PROVE  /\ r.op \in {"create", "mutate", "remove"} /\ r.id \in Ids
           /\ Given(r) \subseteq Fields /\ \A f \in Given(r) : r.to[f] \in Values
           /\ Given(r) = Fields => r.to \in Record
  <1>1. r.op \in {"create", "mutate", "remove"} /\ r.id \in Ids
        /\ r.to \in UNION {[set -> Values] : set \in SUBSET Fields}
    BY DEF Request
  <1>2. PICK set \in SUBSET Fields : r.to \in [set -> Values]
    BY <1>1
  <1>3. Given(r) = set
    BY <1>2 DEF Given
  <1> QED
    BY <1>1, <1>2, <1>3 DEF Record

\* What a statement does to the table: it changes one record only, and none when it
\* reports a duplicate.
LEMMA EffectType ==
    ASSUME rec \in [Ids -> Record \cup {None}], NEW r \in Request, Offered(r)
    PROVE  /\ Effect(r) \in [Ids -> Record \cup {None}]
           /\ \A i \in Ids \ {r.id} : Effect(r)[i] = rec[i]
           /\ Outcome(r) = "exists" => Effect(r) = rec
           /\ Outcome(r) \in {"ok", "exists", "notfound"}
  <1>0. r.op \in {"create", "mutate", "remove"} /\ r.id \in Ids /\ Given(r) \subseteq Fields
        /\ (\A f \in Given(r) : r.to[f] \in Values) /\ None \notin Record
        /\ rec[r.id] \in Record \cup {None}
    BY RequestType, TableAssumption
  <1>1. CASE r.op = "create" /\ (rec[r.id] = None \/ kind.create = "upsert")
    <2>1. Effect(r) = [rec EXCEPT ![r.id] = r.to]
      BY <1>1 DEF Effect
    <2>2. Given(r) = Fields
      BY <1>1 DEF Offered
    <2>3. r.to \in Record
      BY <2>2, RequestType
    <2>4. Outcome(r) = "ok"
      BY <1>1 DEF Outcome
    <2> QED
      BY <1>0, <2>1, <2>2, <2>3, <2>4
  <1>2. CASE r.op = "mutate" /\ rec[r.id] # None
    <2> DEFINE new == [f \in Fields |-> IF f \in Given(r) THEN r.to[f] ELSE rec[r.id][f]]
    <2>1. Effect(r) = [rec EXCEPT ![r.id] = new]
      BY <1>2 DEF Effect
    <2>2. new \in Record /\ \A f \in Fields : f \notin Given(r) => new[f] = rec[r.id][f]
      BY <1>0, <1>2 DEF Record
    <2>3. Outcome(r) \in {"ok", "notfound"}
      BY <1>2 DEF Outcome
    <2> HIDE DEF new
    <2> QED
      BY <1>0, <2>1, <2>2, <2>3
  <1>3. CASE r.op = "remove"
    <2>1. Effect(r) = [rec EXCEPT ![r.id] = None] /\ Outcome(r) = "ok"
      BY <1>3 DEF Effect, Outcome
    <2> QED
      BY <1>0, <2>1
  <1>4. CASE \/ r.op = "create" /\ ~(rec[r.id] = None \/ kind.create = "upsert")
             \/ r.op = "mutate" /\ rec[r.id] = None
    <2>1. Effect(r) = rec
      BY <1>4 DEF Effect
    <2>2. Outcome(r) \in {"ok", "exists", "notfound"}
      BY DEF Outcome
    <2> QED
      BY <2>1, <2>2
  <1> QED
    BY <1>0, <1>1, <1>2, <1>3, <1>4

\* The type invariant, and: a statement that is about to run is one of the table's.
Inv == TypeOK /\ \A c \in Clients : pc[c] = "exec" => Offered(request[c])

LEMMA EndType ==
    ASSUME Inv, NEW c \in Clients, pc[c] = "exec", NEW result \in Results,
           NEW new \in [Ids -> Record \cup {None}], End(c, result, new), faults' \in 0..MaxFaults
    PROVE  Inv'
  <1>1. request[c] \in Request /\ request[c].id \in Ids
    BY RequestType DEF Inv, TypeOK
  <1>2. unheard' \in [Procs -> SUBSET Ids]
    BY <1>1 DEF End, Inv, TypeOK
  <1>3. pc' \in [Clients -> {"idle", "exec", "notify", "return"}] /\ pc'[c] \in {"notify", "return"}
        /\ \A d \in Clients \ {c} : pc'[d] = pc[d]
    BY DEF End, Inv, TypeOK
  <1>4. outcome' \in [Clients -> {"ok", "exists", "notfound", "error", None}]
    BY DEF End, Inv, TypeOK, Results
  <1>5. rec' = new /\ UNCHANGED <<kind, view, request, calls>>
    BY DEF End
  <1>6. TypeOK'
    BY <1>2, <1>3, <1>4, <1>5 DEF Inv, TypeOK
  <1>7. \A d \in Clients : pc'[d] = "exec" => Offered(request[d])'
    BY <1>3, <1>5 DEF Inv, Offered
  <1> QED
    BY <1>6, <1>7 DEF Inv

LEMMA BeginType ==
    ASSUME Inv, NEW c \in Clients, NEW r \in Request, Begin(c, r)
    PROVE  Inv'
  <1>1. pc' \in [Clients -> {"idle", "exec", "notify", "return"}] /\ pc'[c] # "idle"
        /\ \A d \in Clients \ {c} : pc'[d] = pc[d]
    BY DEF Begin, Inv, TypeOK
  <1>2. request' \in [Clients -> Request \cup {None}] /\ request'[c] = r /\ r # None
        /\ \A d \in Clients \ {c} : request'[d] = request[d]
    BY TableAssumption DEF Begin, Inv, TypeOK
  <1>3. outcome' \in [Clients -> {"ok", "exists", "notfound", "error", None}]
    BY DEF Begin, Inv, TypeOK
  <1>4. calls' \in 0..MaxCalls /\ UNCHANGED <<kind, rec, view, unheard, faults>> /\ Offered(r)
    BY TableAssumption DEF Begin, Inv, TypeOK
  <1>5. TypeOK'
    BY <1>1, <1>2, <1>3, <1>4 DEF Inv, TypeOK
  <1>6. \A d \in Clients : pc'[d] = "exec" => Offered(request[d])'
    BY <1>1, <1>2, <1>4 DEF Inv, Offered
  <1> QED
    BY <1>5, <1>6 DEF Inv

\* A statement, however it ends: `new` is the table it makes.
LEMMA ExecEnds ==
    ASSUME Inv, NEW c \in Clients, Exec(c) \/ FailExec(c)
    PROVE  \E result \in Results, new \in {rec, Effect(request[c])} :
              /\ End(c, result, new) /\ pc[c] = "exec" /\ request[c] \in Request /\ Offered(request[c])
              /\ new \in [Ids -> Record \cup {None}] /\ faults' \in 0..MaxFaults
              /\ result = "error" \/ (result = Outcome(request[c]) /\ new = Effect(request[c]))
  <1>1. /\ pc[c] = "exec" /\ request[c] \in Request /\ Offered(request[c])
        /\ rec \in [Ids -> Record \cup {None}] /\ faults \in 0..MaxFaults
    BY DEF Exec, FailExec, Inv, TypeOK
  <1>2. /\ Effect(request[c]) \in [Ids -> Record \cup {None}]
        /\ Outcome(request[c]) \in {"ok", "exists", "notfound"}
    BY <1>1, EffectType
  <1>3. CASE Exec(c)
    BY <1>1, <1>2, <1>3 DEF Exec, Results
  <1>4. CASE FailExec(c)
    BY <1>1, <1>2, <1>4, TableAssumption DEF FailExec, Results
  <1> QED
    BY <1>3, <1>4

\* Every reachable state is well typed, and a statement about to run is one its table
\* offers.
THEOREM InvCorrect == Spec => []Inv
  <1>1. Init => Inv
    BY TableAssumption DEF Init, Inv, TypeOK
  <1>2. Inv /\ [Next]_vars => Inv'
    <2> SUFFICES ASSUME Inv, [Next]_vars PROVE Inv'
      OBVIOUS
    <2>1. CASE UNCHANGED vars
      BY <2>1 DEF vars, Inv, TypeOK, Offered
    <2>2. ASSUME NEW c \in Clients, Exec(c) \/ FailExec(c) PROVE Inv'
      BY <2>2, ExecEnds, EndType DEF Inv, TypeOK
    <2>3. ASSUME NEW c \in Clients, Notify(c) PROVE Inv'
      BY <2>3, TableAssumption DEF Notify, Inv, TypeOK, Offered
    <2>4. ASSUME NEW c \in Clients, Return(c) PROVE Inv'
      BY <2>4 DEF Return, Inv, TypeOK, Offered
    <2> QED
      BY <2>1, <2>2, <2>3, <2>4, BeginType DEF Next
  <1> QED
    BY <1>1, <1>2, PTL DEF Spec

\* Every reachable state of EntityTables is well typed.
THEOREM TypeSafety == Spec => []TypeOK
  <1>1. Inv => TypeOK
    BY DEF Inv
  <1> QED
    BY <1>1, InvCorrect, PTL

\* A listener misses nothing that was done in its process, for every table and any
\* number of concurrent calls, but what failed without a deferred notice.
THEOREM ListenersAreCurrent == Spec => []ViewIsCurrent
  <1>1. Init => ViewIsCurrent
    BY DEF Init, ViewIsCurrent
  <1>2. Inv /\ ViewIsCurrent /\ [Next]_vars => ViewIsCurrent'
    <2> SUFFICES ASSUME Inv, ViewIsCurrent, [Next]_vars, NEW p \in Procs, NEW i \in Ids,
                        (view[p][i] # rec[i])'
                 PROVE  \/ i \in unheard'[p]
                        \/ \E c \in Clients : Home[c] = p /\ pc'[c] = "notify" /\ request'[c].id = i
      BY DEF ViewIsCurrent
    <2> DEFINE Told == \/ i \in unheard'[p]
                       \/ \E c \in Clients : Home[c] = p /\ pc'[c] = "notify" /\ request'[c].id = i
    <2>0. view[p][i] # rec[i] =>
             \/ i \in unheard[p]
             \/ \E c \in Clients : Home[c] = p /\ pc[c] = "notify" /\ request[c].id = i
      BY DEF ViewIsCurrent
    <2>1. CASE UNCHANGED vars
      BY <2>0, <2>1 DEF vars
    <2>2. ASSUME NEW c \in Clients, NEW r \in Request, Begin(c, r) PROVE Told
      BY <2>0, <2>2 DEF Begin, Inv, TypeOK
    <2>3. ASSUME NEW c \in Clients, Exec(c) \/ FailExec(c) PROVE Told
      <3>1. PICK result \in Results, new \in {rec, Effect(request[c])} :
               /\ End(c, result, new) /\ pc[c] = "exec" /\ request[c] \in Request /\ Offered(request[c])
               /\ result = "error" \/ (result = Outcome(request[c]) /\ new = Effect(request[c]))
        BY <2>3, ExecEnds
      <3> DEFINE told == Notifies(request[c], result)
                 mute == p # Home[c] \/ (result = "error" /\ ~DefersNotice(request[c]))
      <3>2. /\ rec' = new /\ UNCHANGED <<view, request>>
            /\ pc'[c] = IF told THEN "notify" ELSE "return"
            /\ \A d \in Clients \ {c} : pc'[d] = pc[d]
        BY <3>1 DEF End, Inv, TypeOK
      <3>3. unheard'[p] = IF new # rec /\ mute THEN unheard[p] \cup {request[c].id} ELSE unheard[p]
        BY <3>1 DEF End
      <3>4. CASE new[i] = rec[i]
        BY <2>0, <3>1, <3>2, <3>3, <3>4
      <3>5. CASE new[i] # rec[i]
        <4>1. new # rec /\ new = Effect(request[c])
          BY <3>1, <3>5
        <4>2. i = request[c].id
          BY <3>1, <3>5, <4>1, EffectType DEF Inv, TypeOK
        <4>3. CASE mute
          BY <3>3, <4>1, <4>2, <4>3
        <4>4. CASE ~mute
          <5>1. result = "ok" \/ DefersNotice(request[c])
            <6>1. result # "exists"
              BY <3>1, <4>1, EffectType DEF Inv, TypeOK
            <6>2. result = "notfound" => DefersNotice(request[c])
              BY <3>1 DEF Outcome, DefersNotice
            <6> QED
              BY <4>4, <6>1, <6>2 DEF Results
          <5>2. told
            BY <5>1 DEF Notifies
          <5> HIDE DEF told
          <5> QED
            BY <3>2, <4>2, <4>4, <5>2
        <4> QED
          BY <4>3, <4>4
      <3> QED
        BY <3>4, <3>5
    <2>4. ASSUME NEW c \in Clients, Notify(c) PROVE Told
      <3>1. p # Home[c]
        BY <2>4, TableAssumption DEF Notify, Inv, TypeOK
      <3> QED
        BY <2>0, <2>4, <3>1 DEF Notify, Inv, TypeOK
    <2>5. ASSUME NEW c \in Clients, Return(c) PROVE Told
      BY <2>0, <2>5 DEF Return, Inv, TypeOK
    <2> QED
      BY <2>1, <2>2, <2>3, <2>4, <2>5 DEF Next
  <1> QED
    BY <1>1, <1>2, InvCorrect, PTL DEF Spec
=============================================================================
