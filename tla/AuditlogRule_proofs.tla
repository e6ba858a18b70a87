-------------------------- MODULE AuditlogRule_proofs --------------------------
(***************************************************************************)
(* Proofs about AuditlogRule, for any rules, methods, processes and bounds,*)
(* in deployments where requests do not fail and the edits of a subscribed *)
(* rule take nothing away.                                                 *)
(*                                                                         *)
(* The patches of a process are those its rows ask for, or there is a      *)
(* reason (Explained): the process is behind the registry sequence, or     *)
(* another process is about to move it, or it is itself serving the        *)
(* request that changes the rule.  Signals are only spared when the change *)
(* asks for no other patches, which holds because a request starts on      *)
(* patches that are in sync.                                               *)
(***************************************************************************)
EXTENDS AuditlogRule, TLAPS

Orderly == deploy.mayClear = FALSE /\ deploy.mayFail = FALSE

\* The patches a row asks for, on a registry without patches.
Wanted(row) == patch_methods(Unpatched, row)

InStep(w, r) == patched[w][r] = Wanted(rules[r])

Writing(w, r) == tx[w].pc = "written" /\ tx[w].rule = r

\* Until it commits, a request is ahead of the row, in step with the new one.
Ahead(w) ==
  LET t == tx[w]
  IN  /\ patched[w][t.rule] = Wanted(t.new)
      /\ ~t.invalidated => Wanted(t.new) = Wanted(rules[t.rule])

WritersAhead == Orderly => \A w \in Worker: tx[w].pc = "written" => Ahead(w)

ToBeTold(w, r) == \E v \in Worker: v # w /\ tx[v].pc = "signal" /\ tx[v].rule = r

ExplainedFor(w, r) ==
  InStep(w, r) \/ seen[w] # sequence \/ ToBeTold(w, r) \/ Writing(w, r)

Explained == Orderly => \A w \in deploy.up, r \in Rule: ExplainedFor(w, r)

OneRequestPerRule ==
  \A v, w \in Worker: tx[v].pc # "idle" /\ tx[w].pc # "idle" /\ tx[v].rule = tx[w].rule
                        => v = w

\* A request has a rule and a row, and one of a process that is up.
RequestShape ==
  \A w \in Worker: /\ tx[w].pc # "idle" => tx[w].rule \in Rule /\ tx[w].new \in Row /\ w \in deploy.up
                   /\ tx[w].pc = "idle" => tx[w] = Idle

IInv == TypeOK /\ RequestShape /\ OneRequestPerRule /\ WritersAhead /\ Explained

-----------------------------------------------------------------------------
Tx == [pc: {"idle", "written", "signal"},
       rule: Rule \union {None}, new: Row \union {None}, invalidated: BOOLEAN]
Patch == [Method -> LogType \union {None}]

LEMMA UpType == TypeOK => deploy.up \in SUBSET Worker /\ deploy.mayClear \in BOOLEAN /\ deploy.mayFail \in BOOLEAN
BY AuditParameters DEF TypeOK

LEMMA IdleType == Idle \in Tx /\ Idle.pc = "idle" /\ Idle.rule = None
BY DEF Idle, Tx

LEMMA PatchType ==
  ASSUME NEW p \in Patch, NEW row \in Row
  PROVE  patch_methods(p, row) \in Patch /\ revert_methods(p, row) \in Patch
BY DEF Patch, Row, patch_methods, revert_methods

LEMMA WantedType == ASSUME NEW row \in Row PROVE Wanted(row) \in Patch
<1>1. Unpatched \in Patch
  BY DEF Unpatched, Patch
<1> QED BY <1>1, PatchType DEF Wanted

LEMMA RegistryWanted == TypeOK => NewRegistry = [r \in Rule |-> Wanted(rules[r])]
BY DEF NewRegistry, RegisterHook, Wanted

\* A row that is not subscribed asks for nothing.
LEMMA WantedNothing ==
  ASSUME NEW row \in Row, row.state # "subscribed" PROVE Wanted(row) = Unpatched
BY DEF Wanted, patch_methods, Unpatched, Row

\* Adding to a subscribed rule, or subscribing, patches as a fresh start does.
LEMMA SaveWanted ==
  ASSUME NEW old \in Row, NEW row \in Row,
         \/ old.state # "subscribed"
         \/ row.state = "subscribed" /\ old.log \subseteq row.log /\ old.type = row.type
  PROVE  patch_methods(Wanted(old), row) = Wanted(row)
<1>1. CASE old.state # "subscribed"
  BY <1>1, WantedNothing DEF Wanted
<1>2. CASE old.state = "subscribed"
  <2>1. Wanted(old) = [m \in Method |-> IF m \in old.log THEN old.type ELSE None]
    BY <1>2, AuditParameters DEF Wanted, patch_methods, Unpatched
  <2>2. Wanted(row) = [m \in Method |-> IF m \in row.log THEN row.type ELSE None]
    BY <1>2, AuditParameters DEF Wanted, patch_methods, Unpatched
  <2>3. ASSUME NEW m \in Method
        PROVE  patch_methods(Wanted(old), row)[m] = Wanted(row)[m]
    <3>1. old.type \in LogType /\ old.type # None
      BY AuditParameters DEF Row
    <3> QED BY <1>2, <2>1, <2>2, <3>1 DEF patch_methods
  <2> QED BY <2>2, <2>3 DEF patch_methods
<1> QED BY <1>1, <1>2

LEMMA RevertWanted ==
  ASSUME NEW old \in Row PROVE revert_methods(Wanted(old), old) = Unpatched
BY DEF Wanted, patch_methods, revert_methods, Unpatched, Row
-----------------------------------------------------------------------------
LEMMA InitInv == Init => IInv
<1> SUFFICES ASSUME Init PROVE IInv
  OBVIOUS
<1>1. rules \in [Rule -> Row] /\ \A r \in Rule: rules[r].state = "absent"
  BY DEF Init, Row
<1>2. TypeOK
  BY <1>1, IdleType, AuditParameters DEF Init, TypeOK, Tx, Unpatched
<1>3. \A w \in Worker: tx[w] = Idle /\ tx[w].pc = "idle"
  BY DEF Init, Idle
<1>4. Explained
  <2>1. ASSUME NEW w \in Worker, NEW r \in Rule PROVE InStep(w, r)
    BY <1>1, WantedNothing DEF Init, InStep
  <2> QED BY <1>2, <2>1, UpType DEF Explained, ExplainedFor
<1> QED BY <1>2, <1>3, <1>4 DEF IInv, RequestShape, OneRequestPerRule, WritersAhead

\* A request starts in step, so it ends in step with the row it writes.
LEMMA RequestInv ==
  ASSUME IInv, NEW w \in Worker, NEW r \in Rule, NEW row \in Row, NEW p \in Patch,
         Request(w, r, row, p),
         Orderly /\ InStep(w, r) => p = Wanted(row)
  PROVE  IInv'
<1> DEFINE t == [pc |-> "written", rule |-> r, new |-> row, invalidated |-> p # patched[w][r]]
<1>1. /\ w \in deploy.up /\ tx[w].pc = "idle" /\ seen[w] = sequence
      /\ \A v \in Worker: tx[v].rule # r
      /\ patched' = [patched EXCEPT ![w][r] = p]
      /\ tx' = [tx EXCEPT ![w] = t]
      /\ asks < MaxAsks /\ asks' = asks + 1
      /\ UNCHANGED <<deploy, rules, sequence, seen>>
  BY DEF Request, Ask
<1>2. t \in Tx /\ t.pc = "written" /\ t.rule = r /\ t.new = row
      /\ (t.invalidated <=> p # patched[w][r])
  BY DEF Tx
<1> HIDE DEF t
<1>3. /\ patched \in [Worker -> [Rule -> Patch]] /\ tx \in [Worker -> Tx]
      /\ deploy.up \in SUBSET Worker
  BY UpType DEF IInv, TypeOK, Patch, Tx
<1>4. /\ patched' \in [Worker -> [Rule -> Patch]]
      /\ patched'[w][r] = p
      /\ \A v \in Worker, q \in Rule: v # w \/ q # r => patched'[v][q] = patched[v][q]
  BY <1>1, <1>3
<1>5. /\ tx' \in [Worker -> Tx]
      /\ tx'[w] = t
      /\ \A v \in Worker: v # w => tx'[v] = tx[v]
  BY <1>1, <1>2, <1>3
<1>6. asks' \in 0..MaxAsks
  <2>1. asks \in 0..MaxAsks /\ MaxAsks \in Nat
    BY AuditParameters DEF IInv, TypeOK
  <2> QED BY <1>1, <2>1
<1>7. TypeOK'
  BY <1>1, <1>4, <1>5, <1>6 DEF IInv, TypeOK, Patch, Tx
<1>8. RequestShape' /\ OneRequestPerRule'
  BY <1>1, <1>2, <1>5 DEF IInv, RequestShape, OneRequestPerRule
<1>9. Orderly => InStep(w, r)
  <2>1. ~ToBeTold(w, r) /\ ~Writing(w, r)
    BY <1>1 DEF ToBeTold, Writing
  <2> QED BY <1>1, <2>1 DEF IInv, Explained, ExplainedFor
<1>10. WritersAhead'
  <2> SUFFICES ASSUME Orderly, NEW v \in Worker, tx'[v].pc = "written" PROVE Ahead(v)'
    BY <1>1 DEF WritersAhead, Orderly
  <2>1. CASE v = w
    <3>1. p = Wanted(row)
      BY <1>9
    <3>2. ~t.invalidated => Wanted(row) = Wanted(rules[r])
      BY <1>2, <1>9, <3>1 DEF InStep
    <3> QED BY <1>1, <1>2, <1>4, <1>5, <2>1, <3>1, <3>2 DEF Ahead, Wanted, patch_methods, Unpatched
  <2>2. CASE v # w
    <3>1. tx'[v] = tx[v] /\ tx[v].rule # r /\ tx[v].rule \in Rule
      BY <1>1, <1>5, <2>2 DEF IInv, RequestShape
    <3>2. Ahead(v)
      BY <3>1 DEF IInv, WritersAhead
    <3> QED BY <1>1, <1>4, <3>1, <3>2 DEF Ahead, Wanted, patch_methods, Unpatched
  <2> QED BY <2>1, <2>2
<1>11. Explained'
  <2> SUFFICES ASSUME Orderly, NEW v \in deploy.up, NEW q \in Rule PROVE ExplainedFor(v, q)'
    BY <1>1 DEF Explained, Orderly
  <2>0. v \in Worker
    BY <1>3
  <2>1. ExplainedFor(v, q)
    BY DEF IInv, Explained
  <2>2. ToBeTold(v, q) => ToBeTold(v, q)'
    BY <1>1, <1>5 DEF ToBeTold
  <2>3. CASE v = w /\ q = r
    BY <1>2, <1>5, <2>3 DEF ExplainedFor, Writing
  <2>4. CASE v # w \/ q # r
    <3>1. InStep(v, q) => InStep(v, q)'
      BY <1>1, <1>4, <2>0, <2>4 DEF InStep, Wanted, patch_methods, Unpatched
    <3>2. Writing(v, q) => Writing(v, q)'
      BY <1>1, <1>5, <2>0, <2>4 DEF Writing
    <3> QED BY <1>1, <2>1, <2>2, <3>1, <3>2 DEF ExplainedFor
  <2> QED BY <2>3, <2>4
<1> QED BY <1>7, <1>8, <1>10, <1>11 DEF IInv

LEMMA RuleRequestInv ==
  ASSUME IInv, NEW w \in Worker, NEW r \in Rule, RuleRequest(w, r)
  PROVE  IInv'
<1>0. rules[r] \in Row /\ patched[w][r] \in Patch
  BY DEF IInv, TypeOK, Patch
<1>1. ASSUME NEW row \in Row, Save(w, r, row),
             Orderly => \/ rules[r].state # "subscribed"
                        \/ row.state = "subscribed" /\ rules[r].log \subseteq row.log /\ rules[r].type = row.type
      PROVE  IInv'
  <2> DEFINE p == patch_methods(patched[w][r], row)
  <2>1. p \in Patch
    BY <1>0, PatchType
  <2>2. Orderly /\ InStep(w, r) => p = Wanted(row)
    BY <1>0, <1>1, SaveWanted DEF InStep
  <2>3. Request(w, r, row, p)
    BY <1>1 DEF Save
  <2> HIDE DEF p
  <2> QED BY <2>1, <2>2, <2>3, RequestInv
<1>2. ASSUME NEW row \in Row, create(w, r, row) PROVE IInv'
  BY <1>1, <1>2 DEF create
<1>3. ASSUME NEW log \in SUBSET Method, NEW type \in LogType, write(w, r, log, type) PROVE IInv'
  <2> DEFINE row == [rules[r] EXCEPT !.log = log, !.type = type]
  <2>1. row \in Row /\ row.state = rules[r].state /\ row.log = log /\ row.type = type
    BY <1>0 DEF Row
  <2>2. Save(w, r, row)
    BY <1>3 DEF write
  <2>3. Orderly => \/ rules[r].state # "subscribed"
                   \/ row.state = "subscribed" /\ rules[r].log \subseteq row.log /\ rules[r].type = row.type
    <3>1. \/ rules[r].state = "draft"
          \/ rules[r].log \subseteq log /\ rules[r].type = type
          \/ deploy.mayClear
      BY <1>3 DEF write
    <3>2. rules[r].state \in {"absent", "draft", "subscribed"}
      BY <1>0 DEF Row
    <3> HIDE DEF row
    <3> QED BY <2>1, <3>1, <3>2 DEF Orderly
  <2> HIDE DEF row
  <2> QED BY <1>1, <2>1, <2>2, <2>3
<1>4. CASE subscribe(w, r)
  <2> DEFINE row == [rules[r] EXCEPT !.state = "subscribed"]
  <2>1. row \in Row /\ row.state = "subscribed" /\ row.log = rules[r].log /\ row.type = rules[r].type
    BY <1>0 DEF Row
  <2>2. Save(w, r, row)
    BY <1>4 DEF subscribe
  <2> HIDE DEF row
  <2> QED BY <1>1, <2>1, <2>2
<1>5. ASSUME NEW next \in {"draft", "absent"}, unsubscribe(w, r, next) PROVE IInv'
  <2> DEFINE row == [rules[r] EXCEPT !.state = next]
             p == revert_methods(patched[w][r], rules[r])
  <2>1. row \in Row /\ row.state # "subscribed"
    BY <1>0 DEF Row
  <2>2. p \in Patch
    BY <1>0, PatchType
  <2>3. Request(w, r, row, p)
    BY <1>5 DEF unsubscribe
  <2>4. Wanted(row) = Unpatched
    <3> HIDE DEF row
    <3> QED BY <2>1, WantedNothing
  <2>5. InStep(w, r) => p = Unpatched
    BY <1>0, RevertWanted DEF InStep
  <2> HIDE DEF row, p
  <2> QED BY <2>1, <2>2, <2>3, <2>4, <2>5, RequestInv
<1> QED BY <1>2, <1>3, <1>4, <1>5 DEF RuleRequest
-----------------------------------------------------------------------------
\* A commit without a signal changes nothing of what the row asks for.
LEMMA CommitInv ==
  ASSUME IInv, NEW w \in Worker, Commit(w) PROVE IInv'
<1> DEFINE t == IF tx[w].invalidated THEN [tx[w] EXCEPT !.pc = "signal"] ELSE Idle
           r == tx[w].rule
<1>1. /\ tx[w].pc = "written"
      /\ rules' = [rules EXCEPT ![r] = tx[w].new]
      /\ tx' = [tx EXCEPT ![w] = t]
      /\ UNCHANGED <<deploy, patched, sequence, seen, asks>>
  BY DEF Commit
<1>2. /\ tx \in [Worker -> Tx] /\ rules \in [Rule -> Row] /\ deploy.up \in SUBSET Worker
      /\ r \in Rule /\ tx[w].new \in Row /\ w \in deploy.up
  BY <1>1, UpType DEF IInv, TypeOK, Tx, RequestShape
<1>3. /\ t \in Tx
      /\ tx[w].invalidated => t.pc = "signal" /\ t.rule = r /\ t.new = tx[w].new
      /\ ~tx[w].invalidated => t = Idle /\ t.pc = "idle"
  BY <1>2, IdleType DEF Tx
<1>4. /\ rules' \in [Rule -> Row]
      /\ rules'[r] = tx[w].new
      /\ \A q \in Rule: q # r => rules'[q] = rules[q]
  BY <1>1, <1>2
<1> HIDE DEF t
<1>5. /\ tx' \in [Worker -> Tx]
      /\ tx'[w] = t
      /\ \A v \in Worker: v # w => tx'[v] = tx[v]
  BY <1>1, <1>2, <1>3
<1>6. TypeOK'
  BY <1>1, <1>4, <1>5 DEF IInv, TypeOK, Tx
<1>7. RequestShape'
  BY <1>1, <1>2, <1>3, <1>5 DEF IInv, RequestShape
<1>8. OneRequestPerRule'
  BY <1>1, <1>3, <1>5 DEF IInv, OneRequestPerRule
<1>9. WritersAhead'
  <2> SUFFICES ASSUME Orderly, NEW v \in Worker, tx'[v].pc = "written" PROVE Ahead(v)'
    BY <1>1 DEF WritersAhead, Orderly
  <2>1. v # w
    BY <1>3, <1>5
  <2>2. tx'[v] = tx[v] /\ tx[v].pc = "written"
    BY <1>5, <2>1
  <2>3. tx[v].rule \in Rule /\ tx[v].rule # r
    BY <1>1, <2>1, <2>2 DEF IInv, RequestShape, OneRequestPerRule
  <2>4. Ahead(v)
    BY <2>2 DEF IInv, WritersAhead
  <2> QED BY <1>1, <1>4, <2>2, <2>3, <2>4 DEF Ahead, Wanted, patch_methods, Unpatched
<1>10. Explained'
  <2> SUFFICES ASSUME Orderly, NEW v \in deploy.up, NEW q \in Rule PROVE ExplainedFor(v, q)'
    BY <1>1 DEF Explained, Orderly
  <2>0. v \in Worker
    BY <1>2
  <2>1. ExplainedFor(v, q)
    BY DEF IInv, Explained
  <2>2. ASSUME ToBeTold(v, q) PROVE ToBeTold(v, q)'
    <3>1. PICK u \in Worker: u # v /\ tx[u].pc = "signal" /\ tx[u].rule = q
      BY <2>2 DEF ToBeTold
    <3> QED BY <1>1, <1>5, <3>1 DEF ToBeTold
  <2>3. Ahead(w)
    BY <1>1 DEF IInv, WritersAhead
  <2>4. CASE v = w /\ q = r
    <3>1. InStep(v, q)'
      BY <1>1, <1>4, <2>3, <2>4 DEF Ahead, InStep, Wanted, patch_methods, Unpatched
    <3> QED BY <3>1 DEF ExplainedFor
  <2>5. CASE v # w /\ q = r
    <3>1. ~Writing(v, q)
      BY <1>1, <1>2, <2>0, <2>5 DEF Writing, IInv, OneRequestPerRule
    <3>2. CASE tx[w].invalidated
      <4>1. ToBeTold(v, q)'
        BY <1>2, <1>3, <1>5, <2>5, <3>2 DEF ToBeTold
      <4> QED BY <4>1 DEF ExplainedFor
    <3>3. CASE ~tx[w].invalidated
      <4>1. InStep(v, q) => InStep(v, q)'
        BY <1>1, <1>4, <2>3, <2>5, <3>3 DEF Ahead, InStep, Wanted, patch_methods, Unpatched
      <4> QED BY <1>1, <2>1, <2>2, <3>1, <4>1 DEF ExplainedFor
    <3> QED BY <3>2, <3>3
  <2>6. CASE q # r
    <3>1. InStep(v, q) => InStep(v, q)'
      BY <1>1, <1>4, <2>6 DEF InStep, Wanted, patch_methods, Unpatched
    <3>2. Writing(v, q) => Writing(v, q)'
      BY <1>1, <1>5, <2>0, <2>6 DEF Writing
    <3> QED BY <1>1, <2>1, <2>2, <3>1, <3>2 DEF ExplainedFor
  <2> QED BY <2>4, <2>5, <2>6
<1> QED BY <1>6, <1>7, <1>8, <1>9, <1>10 DEF IInv

\* A signal puts every other process behind.
LEMMA SignalInv ==
  ASSUME IInv, NEW w \in Worker, SignalChanges(w) PROVE IInv'
<1>1. /\ tx[w].pc = "signal"
      /\ sequence' = sequence + 1
      /\ seen' = [seen EXCEPT ![w] = @ + 1]
      /\ tx' = [tx EXCEPT ![w] = Idle]
      /\ UNCHANGED <<deploy, rules, patched, asks>>
  BY DEF SignalChanges
<1>2. /\ tx \in [Worker -> Tx] /\ deploy.up \in SUBSET Worker
      /\ sequence \in Nat /\ seen \in [Worker -> 0..sequence]
  BY UpType DEF IInv, TypeOK, Tx
<1>3. /\ tx' \in [Worker -> Tx]
      /\ tx'[w] = Idle
      /\ \A v \in Worker: v # w => tx'[v] = tx[v]
  BY <1>1, <1>2, IdleType
<1>4. /\ sequence' \in Nat
      /\ seen' \in [Worker -> 0..sequence']
      /\ seen[w] # sequence => seen'[w] # sequence'
      /\ \A v \in Worker: v # w => seen'[v] # sequence'
  <2>1. \A v \in Worker: seen[v] \in 0..sequence
    BY <1>2
  <2>2. \A v \in Worker: seen'[v] = IF v = w THEN seen[v] + 1 ELSE seen[v]
    BY <1>1, <1>2
  <2>3. seen' = [v \in Worker |-> seen'[v]]
    BY <1>1, <1>2
  <2>4. \A v \in Worker: seen'[v] \in 0..sequence'
    BY <1>1, <1>2, <2>1, <2>2
  <2> QED BY <1>1, <1>2, <2>1, <2>2, <2>3, <2>4
<1>5. TypeOK'
  BY <1>1, <1>3, <1>4 DEF IInv, TypeOK, Tx
<1>6. RequestShape' /\ OneRequestPerRule'
  BY <1>1, <1>3, IdleType DEF IInv, RequestShape, OneRequestPerRule
<1>7. WritersAhead'
  BY <1>1, <1>3, IdleType DEF IInv, WritersAhead, Orderly, Ahead, Wanted, patch_methods, Unpatched
<1>8. Explained'
  <2> SUFFICES ASSUME Orderly, NEW v \in deploy.up, NEW q \in Rule PROVE ExplainedFor(v, q)'
    BY <1>1 DEF Explained, Orderly
  <2>0. v \in Worker
    BY <1>2
  <2>1. CASE v # w
    BY <1>4, <2>0, <2>1 DEF ExplainedFor
  <2>2. CASE v = w
    <3>1. ExplainedFor(w, q)
      BY <2>2 DEF IInv, Explained
    <3>2. ~Writing(w, q)
      BY <1>1 DEF Writing
    <3>3. InStep(w, q) => InStep(w, q)'
      BY <1>1 DEF InStep, Wanted, patch_methods, Unpatched
    <3>4. ToBeTold(w, q) => ToBeTold(w, q)'
      BY <1>1, <1>3 DEF ToBeTold
    <3> QED BY <1>4, <2>2, <3>1, <3>2, <3>3, <3>4 DEF ExplainedFor
  <2> QED BY <2>1, <2>2
<1> QED BY <1>5, <1>6, <1>7, <1>8 DEF IInv

\* A process that loads a new registry, and serves no request, is in step.
LEMMA LoadInv ==
  ASSUME IInv, NEW w \in Worker,
         patched' = [patched EXCEPT ![w] = NewRegistry],
         seen' = [seen EXCEPT ![w] = sequence],
         tx' = [tx EXCEPT ![w] = Idle], tx[w].pc # "signal",
         asks' \in 0..MaxAsks,
         UNCHANGED <<deploy, rules, sequence>>
  PROVE  IInv'
<1>1. /\ tx \in [Worker -> Tx] /\ deploy.up \in SUBSET Worker
      /\ patched \in [Worker -> [Rule -> Patch]]
      /\ rules \in [Rule -> Row]
      /\ sequence \in Nat /\ seen \in [Worker -> 0..sequence]
  BY UpType DEF IInv, TypeOK, Tx, Patch
<1>2. NewRegistry \in [Rule -> Patch] /\ \A q \in Rule: NewRegistry[q] = Wanted(rules[q])
  BY <1>1, WantedType, RegistryWanted DEF IInv
<1>3. /\ tx' \in [Worker -> Tx]
      /\ tx'[w] = Idle
      /\ \A v \in Worker: v # w => tx'[v] = tx[v]
  BY <1>1, IdleType
<1>4. /\ patched' \in [Worker -> [Rule -> Patch]]
      /\ patched'[w] = NewRegistry
      /\ \A v \in Worker: v # w => patched'[v] = patched[v]
  BY <1>1, <1>2
<1>5. /\ seen' \in [Worker -> 0..sequence']
      /\ \A v \in Worker: v # w => seen'[v] = seen[v]
  BY <1>1
<1>6. TypeOK'
  BY <1>3, <1>4, <1>5 DEF IInv, TypeOK, Tx, Patch
<1>7. RequestShape' /\ OneRequestPerRule'
  BY <1>3, IdleType DEF IInv, RequestShape, OneRequestPerRule
<1>8. WritersAhead'
  <2> SUFFICES ASSUME Orderly, NEW v \in Worker, tx'[v].pc = "written" PROVE Ahead(v)'
    BY DEF WritersAhead, Orderly
  <2>1. v # w
    BY <1>3, IdleType
  <2>2. Ahead(v)
    BY <1>3, <2>1 DEF IInv, WritersAhead
  <2> QED BY <1>3, <1>4, <2>1, <2>2 DEF Ahead, Wanted, patch_methods, Unpatched
<1>9. Explained'
  <2> SUFFICES ASSUME Orderly, NEW v \in deploy.up, NEW q \in Rule PROVE ExplainedFor(v, q)'
    BY DEF Explained, Orderly
  <2>0. v \in Worker
    BY <1>1
  <2>1. CASE v = w
    BY <1>2, <1>4, <2>1 DEF ExplainedFor, InStep, Wanted, patch_methods, Unpatched
  <2>2. CASE v # w
    <3>1. ExplainedFor(v, q)
      BY DEF IInv, Explained
    <3>2. InStep(v, q) => InStep(v, q)'
      BY <1>4, <2>0, <2>2 DEF InStep, Wanted, patch_methods, Unpatched
    <3>3. Writing(v, q) => Writing(v, q)'
      BY <1>3, <2>0, <2>2 DEF Writing
    <3>4. ToBeTold(v, q) => ToBeTold(v, q)'
      BY <1>3 DEF ToBeTold
    <3> QED BY <1>5, <2>0, <2>2, <3>1, <3>2, <3>3, <3>4 DEF ExplainedFor
  <2> QED BY <2>1, <2>2
<1> QED BY <1>6, <1>7, <1>8, <1>9 DEF IInv
\* A request that fails adds the patches that committed rules ask for.
LEMMA FailInv ==
  ASSUME IInv, NEW w \in Worker, Fail(w) PROVE IInv'
<1>1. /\ deploy.mayFail
      /\ patched' = [patched EXCEPT ![w] = IF tx[w].invalidated THEN RegisterHook(@) ELSE @]
      /\ tx' = [tx EXCEPT ![w] = Idle]
      /\ UNCHANGED <<deploy, rules, sequence, seen, asks>>
  BY DEF Fail
<1>2. tx \in [Worker -> Tx] /\ rules \in [Rule -> Row] /\ patched \in [Worker -> [Rule -> Patch]]
  BY DEF IInv, TypeOK, Tx, Patch
<1>3. RegisterHook(patched[w]) \in [Rule -> Patch]
  BY <1>2, PatchType DEF RegisterHook
<1>4. patched' \in [Worker -> [Rule -> Patch]]
  BY <1>1, <1>2, <1>3
<1>5. tx' \in [Worker -> Tx] /\ tx'[w] = Idle /\ \A v \in Worker: v # w => tx'[v] = tx[v]
  BY <1>1, <1>2, IdleType
<1>6. TypeOK'
  BY <1>1, <1>4, <1>5 DEF IInv, TypeOK, Tx, Patch
<1>7. RequestShape' /\ OneRequestPerRule'
  BY <1>1, <1>5, IdleType DEF IInv, RequestShape, OneRequestPerRule
<1>8. WritersAhead' /\ Explained'
  BY <1>1 DEF WritersAhead, Explained, Orderly
<1> QED BY <1>6, <1>7, <1>8 DEF IInv

LEMMA CheckSignalingInv ==
  ASSUME IInv, NEW w \in Worker, CheckSignaling(w) PROVE IInv'
<1>1. tx[w] = Idle /\ tx \in [Worker -> Tx]
  BY DEF CheckSignaling, IInv, RequestShape, TypeOK, Tx
<1>2. tx' = [tx EXCEPT ![w] = Idle]
  BY <1>1 DEF CheckSignaling
<1>3. asks' \in 0..MaxAsks
  BY DEF CheckSignaling, IInv, TypeOK
<1> QED BY <1>2, <1>3, LoadInv DEF CheckSignaling

LEMMA RestartInv ==
  ASSUME IInv, NEW w \in Worker, Restart(w) PROVE IInv'
<1>1. asks' \in 0..MaxAsks
  <2>1. asks \in 0..MaxAsks /\ MaxAsks \in Nat
    BY AuditParameters DEF IInv, TypeOK
  <2> QED BY <2>1 DEF Restart, Ask
<1> QED BY <1>1, LoadInv DEF Restart

LEMMA StepInv ==
  ASSUME IInv, [Next]_vars PROVE IInv'
<1>1. CASE UNCHANGED vars
  <2>1. TypeOK' /\ RequestShape' /\ OneRequestPerRule'
    BY <1>1 DEF vars, IInv, TypeOK, RequestShape, OneRequestPerRule
  <2>2. WritersAhead'
    BY <1>1 DEF vars, IInv, WritersAhead, Orderly, Ahead, Wanted, patch_methods, Unpatched
  <2>3. Explained'
    BY <1>1 DEF vars, IInv, Explained, Orderly, ExplainedFor, InStep, Writing, ToBeTold, Wanted,
                patch_methods, Unpatched
  <2> QED BY <2>1, <2>2, <2>3 DEF IInv
<1>2. ASSUME NEW w \in Worker, EndRequest(w) PROVE IInv'
  BY <1>2, CommitInv, SignalInv, FailInv DEF EndRequest
<1> QED BY <1>1, <1>2, RuleRequestInv, CheckSignalingInv, RestartInv DEF Next

LEMMA Invariance == Spec => []IInv
BY InitInv, StepInv, PTL DEF Spec

-----------------------------------------------------------------------------
\* The variables keep their types.
THEOREM AuditTypeCorrect == Spec => []TypeOK
<1>1. IInv => TypeOK
  BY DEF IInv
<1> QED BY <1>1, Invariance, PTL

\* The patches of a process that is up to date are those of a fresh start
\* (_register_hook), without failures and edits that take something away.
THEOREM ProcessesAgree == Spec => []InSync
<1>1. IInv => InSync
  <2> SUFFICES ASSUME IInv, ~deploy.mayClear, ~deploy.mayFail, NEW w \in Worker, Current(w)
               PROVE  patched[w] = NewRegistry
    BY DEF InSync
  <2>1. Orderly
    BY UpType DEF IInv, Orderly
  <2>2. ASSUME NEW r \in Rule PROVE patched[w][r] = Wanted(rules[r])
    BY <2>1 DEF IInv, Explained, ExplainedFor, InStep, ToBeTold, Writing, Current
  <2>3. patched[w] \in [Rule -> Patch]
    BY DEF IInv, TypeOK, Patch
  <2> QED BY <2>2, <2>3, RegistryWanted DEF IInv
<1> QED BY <1>1, Invariance, PTL

\* No operation of a subscribed rule goes unlogged in a process that is up to
\* date, in a deployment without failures and edits that take something away.
THEOREM EverythingIsLogged ==
  ASSUME \A d \in Deployment: ~d.mayClear /\ ~d.mayFail
  PROVE  Spec => []NothingMissed
<1>1. IInv /\ InSync => NothingMissed
  <2> SUFFICES ASSUME IInv, InSync, NEW w \in Worker, NEW r \in Rule, Current(w), NEW m \in Asked(r)
               PROVE  m \in Logged(w, r)
    BY DEF NothingMissed
  <2>1. patched[w] = NewRegistry
    BY DEF InSync, IInv, TypeOK
  <2>2. patched[w][r] = Wanted(rules[r])
    BY <2>1, RegistryWanted DEF IInv
  <2>3. rules[r] \in Row /\ rules[r].state = "subscribed" /\ m \in rules[r].log
    BY DEF IInv, TypeOK, Asked
  <2>4. m \in Method /\ rules[r].type \in LogType /\ rules[r].type # None
    BY <2>3, AuditParameters DEF Row
  <2> QED BY <2>2, <2>3, <2>4 DEF Wanted, patch_methods, Unpatched, Logged
<1> QED BY <1>1, Invariance, ProcessesAgree, PTL
==============================================================================
