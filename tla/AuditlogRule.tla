----------------------------- MODULE AuditlogRule -----------------------------
(***************************************************************************)
(* auditlog: a subscribed rule makes every Odoo process patch the ORM      *)
(* methods of a model so that calls are logged.  The rules are rows of the *)
(* database; the patches live in the registry of each process.  The        *)
(* process that handles the request patches at once, the others when they  *)
(* see the registry sequence of the database move, which makes them load a *)
(* new registry.                                                           *)
(*                                                                         *)
(* There is at most one rule per model (model_uniq): a rule stands for its *)
(* model too.  A patch captures log_type and the excluded users.           *)
(***************************************************************************)
EXTENDS Naturals

CONSTANTS Rule, Worker,
          Method,     \* methods that can be logged: create, write, ...
          LogType,    \* what a patch captures of its rule
          Deployment, \* which workers run, and what may happen to them
          MaxAsks,    \* bound: requests about rules, and restarts
          None

ASSUME AuditParameters ==
  /\ None \notin LogType \union Rule
  /\ Deployment \subseteq [up: SUBSET Worker,      \* the processes that run
                           mayClear: BOOLEAN,      \* a subscribed rule is edited
                           mayFail: BOOLEAN]       \* a request fails
  /\ MaxAsks \in Nat

VARIABLES deploy,   \* the deployment, never changed
          rules,    \* committed auditlog_rule rows
          patched,  \* per process, model, method: the patch, or None
          sequence, \* base_registry_signaling
          seen,     \* the sequence the registry of a process corresponds to
          tx,       \* the request about a rule each process serves
          asks

vars == <<deploy, rules, patched, sequence, seen, tx, asks>>

Row == [state: {"absent", "draft", "subscribed"}, log: SUBSET Method, type: LogType]
Idle == [pc |-> "idle", rule |-> None, new |-> None, invalidated |-> FALSE]

TypeOK ==
  /\ deploy \in Deployment
  /\ rules \in [Rule -> Row]
  /\ patched \in [Worker -> [Rule -> [Method -> LogType \union {None}]]]
  /\ sequence \in Nat
  /\ seen \in [Worker -> 0..sequence]
  /\ tx \in [Worker -> [pc: {"idle", "written", "signal"},
                        rule: Rule \union {None},
                        new: Row \union {None},
                        invalidated: BOOLEAN]]
  /\ asks \in 0..MaxAsks

Unpatched == [m \in Method |-> None]

Init == /\ deploy \in Deployment
        /\ rules \in [Rule -> {[state |-> "absent", log |-> {}, type |-> t]: t \in LogType}]
        /\ patched = [w \in Worker |-> [r \in Rule |-> Unpatched]]
        /\ sequence = 0
        /\ seen = [w \in Worker |-> 0]
        /\ tx = [w \in Worker |-> Idle]
        /\ asks = 0

\* Mutant: the patch captures the state of the rule instead of log_type.
patch_methods_WrongField(p, row) ==
  [m \in Method |-> IF row.state = "subscribed" /\ m \in row.log /\ p[m] = None
                    THEN row.state ELSE p[m]]

\* Mutant: a model that is patched already is skipped.
patch_methods_Once(p, row) ==
  [m \in Method |-> IF row.state = "subscribed" /\ m \in row.log /\ p = Unpatched
                    THEN row.type ELSE p[m]]

\* A method that is patched already keeps its patch.
patch_methods(p, row) ==
  [m \in Method |-> IF row.state = "subscribed" /\ m \in row.log /\ p[m] = None
                    THEN row.type ELSE p[m]]

\* Only the methods whose flag is set are restored.
revert_methods(p, row) == [m \in Method |-> IF m \in row.log THEN None ELSE p[m]]

\* What _register_hook patches in a new registry, and adds to an old one.
RegisterHook(registry) == [r \in Rule |-> patch_methods(registry[r], rules[r])]
NewRegistry == RegisterHook([r \in Rule |-> Unpatched])

-----------------------------------------------------------------------------
(* Requests about a rule.  The request starts on an up-to-date registry;   *)
(* the patches change at once, the row when it commits.                    *)

Ask == asks < MaxAsks /\ asks' = asks + 1

\* Mutant: the other workers are not told.
Request_NoUpdate(w, r, row, p) ==
  /\ Ask
  /\ w \in deploy.up
  /\ tx[w].pc = "idle"
  /\ seen[w] = sequence
  /\ \A v \in Worker: tx[v].rule # r
  /\ patched' = [patched EXCEPT ![w][r] = p]
  /\ tx' = [tx EXCEPT ![w] = [pc |-> "written", rule |-> r, new |-> row,
                              invalidated |-> FALSE]]
  /\ UNCHANGED <<deploy, rules, sequence, seen>>

\* Requests about one rule do not overlap.  Others are notified when a patch
\* was added or removed.
Request(w, r, row, p) ==
  /\ Ask
  /\ w \in deploy.up
  /\ tx[w].pc = "idle"
  /\ seen[w] = sequence
  /\ \A v \in Worker: tx[v].rule # r
  /\ patched' = [patched EXCEPT ![w][r] = p]
  /\ tx' = [tx EXCEPT ![w] = [pc |-> "written", rule |-> r, new |-> row,
                              invalidated |-> p # patched[w][r]]]
  /\ UNCHANGED <<deploy, rules, sequence, seen>>

Save(w, r, row) == Request(w, r, row, patch_methods(patched[w][r], row))

create(w, r, row) ==
  /\ rules[r].state = "absent"
  /\ row.state # "absent"
  /\ Save(w, r, row)

\* The form makes the fields of a subscribed rule read-only, but a form that
\* was opened before the subscription saves them all the same.
write(w, r, log, type) ==
  /\ rules[r].state # "absent"
  /\ \/ rules[r].state = "draft"
     \/ rules[r].log \subseteq log /\ rules[r].type = type
     \/ deploy.mayClear
  /\ Save(w, r, [rules[r] EXCEPT !.log = log, !.type = type])

subscribe(w, r) ==
  /\ rules[r].state # "absent"
  /\ Save(w, r, [rules[r] EXCEPT !.state = "subscribed"])

\* next is "draft", or "absent" when it is part of unlink.
unsubscribe(w, r, next) ==
  /\ rules[r].state # "absent"
  /\ Request(w, r, [rules[r] EXCEPT !.state = next],
             revert_methods(patched[w][r], rules[r]))

-----------------------------------------------------------------------------
(* Odoo: the end of a request, and how processes follow each other.        *)

Commit(w) ==
  /\ tx[w].pc = "written"
  /\ rules' = [rules EXCEPT ![tx[w].rule] = tx[w].new]
  /\ tx' = [tx EXCEPT ![w] = IF tx[w].invalidated THEN [@ EXCEPT !.pc = "signal"]
                                                  ELSE Idle]
  /\ UNCHANGED <<deploy, patched, sequence, seen, asks>>

\* Only the process itself counts its own signal as seen.
SignalChanges(w) ==
  /\ tx[w].pc = "signal"
  /\ sequence' = sequence + 1
  /\ seen' = [seen EXCEPT ![w] = @ + 1]
  /\ tx' = [tx EXCEPT ![w] = Idle]
  /\ UNCHANGED <<deploy, rules, patched, asks>>

\* The request fails: the hooks are registered again in a registry that was
\* invalidated, which adds the patches that are missing and removes none.
Fail(w) ==
  /\ deploy.mayFail
  /\ tx[w].pc = "written"
  /\ patched' = [patched EXCEPT ![w] = IF tx[w].invalidated THEN RegisterHook(@) ELSE @]
  /\ tx' = [tx EXCEPT ![w] = Idle]
  /\ UNCHANGED <<deploy, rules, sequence, seen, asks>>

\* The next request of any kind loads a new registry.
CheckSignaling(w) ==
  /\ w \in deploy.up
  /\ tx[w].pc = "idle"
  /\ seen[w] # sequence
  /\ patched' = [patched EXCEPT ![w] = NewRegistry]
  /\ seen' = [seen EXCEPT ![w] = sequence]
  /\ UNCHANGED <<deploy, rules, sequence, tx, asks>>

\* A process dies, outside the instant between its commit and its signal, and
\* another one takes its place.
Restart(w) ==
  /\ Ask
  /\ w \in deploy.up
  /\ tx[w].pc # "signal"
  /\ patched' = [patched EXCEPT ![w] = NewRegistry]
  /\ seen' = [seen EXCEPT ![w] = sequence]
  /\ tx' = [tx EXCEPT ![w] = Idle]
  /\ UNCHANGED <<deploy, rules, sequence>>

-----------------------------------------------------------------------------
RuleRequest(w, r) ==
  \/ \E row \in Row: create(w, r, row)
  \/ \E log \in SUBSET Method, type \in LogType: write(w, r, log, type)
  \/ subscribe(w, r)
  \/ \E next \in {"draft", "absent"}: unsubscribe(w, r, next)

EndRequest(w) == Commit(w) \/ SignalChanges(w) \/ Fail(w)

Next == \E w \in Worker: \/ \E r \in Rule: RuleRequest(w, r)
                         \/ EndRequest(w)
                         \/ CheckSignaling(w)
                         \/ Restart(w)

Spec == Init /\ [][Next]_vars

\* Requests end, and every process keeps serving requests.
FairSpec == /\ Spec
            /\ \A w \in Worker: WF_vars(EndRequest(w)) /\ WF_vars(CheckSignaling(w))

-----------------------------------------------------------------------------
Asked(r) == IF rules[r].state = "subscribed" THEN rules[r].log ELSE {}
Logged(w, r) == {m \in Method: patched[w][r][m] # None}

\* A process whose registry is current, while nobody is changing rules.
Current(w) == /\ w \in deploy.up
              /\ seen[w] = sequence
              /\ \A v \in Worker: tx[v].pc = "idle"

\* "the administrator to log user operations performed on data models"
\* (README): no operation of a subscribed rule goes unlogged in a process that
\* is up to date.
NothingMissed ==
  \A w \in Worker, r \in Rule: Current(w) => Asked(r) \subseteq Logged(w, r)

\* Without failures, and edits of subscribed rules that take something away,
\* the patches of a process that is up to date are those a fresh start would
\* make, captured settings included: processes cannot drift apart.
InSync ==
  ~deploy.mayClear /\ ~deploy.mayFail =>
     \A w \in Worker: Current(w) => patched[w] = NewRegistry

\* Every process ends up logging a rule that stays subscribed.
RuleReachesWorkers ==
  \A w \in Worker, r \in Rule, m \in Method:
     w \in deploy.up /\ m \in Asked(r) ~> m \in Logged(w, r) \/ m \notin Asked(r)
==============================================================================
