---------------------------- MODULE PolicyAdmin ----------------------------
(***************************************************************************)
(* Policy rules as data: admins create, change and delete rows of          *)
(* POLICY_RULE in concurrent request sessions (ManageRules over            *)
(* SqlAlchemyPolicyRepository, READ COMMITTED), each publishing its own    *)
(* view of the table to the API process's cache before it commits; and the *)
(* investigation worker, which loads the table into its own cache when it  *)
(* starts and again at the beginning of every message.                     *)
(*                                                                         *)
(* An update reads the rule (get), builds the replacement, reads the row   *)
(* again (save) and writes only the columns in which the replacement       *)
(* differs from that second read, waiting for a row lock if it must.       *)
(***************************************************************************)
EXTENDS PolicyRules, FiniteSets

CONSTANTS
  Admins,       \* request sessions of admins, reused for any number of requests
  Workers,      \* investigation worker processes
  RuleIds,      \* identities of rules
  NoRow,        \* stands for a row that is not there
  Tools, Scopes, Classes, Reasons,   \* what the requests may contain
  NewAllowed,   \* the values of "allowed" in requests
  Patchable,    \* the columns PATCH requests name
  Requests,     \* tool requests the rules are evaluated for
  MaxVersion    \* no rule is patched past this version (bound)

ASSUME VersionAssumption == MaxVersion \in Nat \ {0}
ASSUME DomainAssumption ==
  /\ Classes \subseteq ActionClass
  /\ NewAllowed \subseteq BOOLEAN
  /\ Patchable \subseteq {"tool", "scope", "class", "allowed", "reason"}

Row == [tool : Tools, class : Classes, scope : Scopes, allowed : BOOLEAN,
        reason : Reasons, version : 1 .. MaxVersion]
ASSUME NoRowAssumption == NoRow \notin Row

MaybeRow == Row \cup {NoRow}
Table == [RuleIds -> MaybeRow]

VARIABLES
  rules,    \* committed rows of policy_rules
  trail,    \* the action of each rule's last committed change record
  ses,      \* what each admin request is doing
  api,      \* the API process's cached rules
  worker    \* each worker: what it does, its cache, and (history) every
            \* table that was committed since its message began

vars == <<rules, trail, ses, api, worker>>

Session == [pc     : {"idle", "save", "flush", "flushed", "listed", "done"},
            op     : {"created", "updated", "deleted"},
            id     : RuleIds \cup {NoRow},
            entity : MaybeRow,    \* the row the request wants
            loaded : MaybeRow,    \* the row save has read
            write  : MaybeRow,    \* what the open transaction has written
            view   : Table]       \* the list it is about to publish

Empty == [i \in RuleIds |-> NoRow]
IdleSession == [pc |-> "idle", op |-> "created", id |-> NoRow,
                entity |-> NoRow, loaded |-> NoRow, write |-> NoRow, view |-> Empty]

Writing(s) == ses[s].pc \in {"flushed", "listed", "done"}

(* Mutant: the caches take rows without building PolicyRule objects.       *)
Readable_Unchecked(t) == TRUE

(* _to_domain builds a PolicyRule of every row and raises on an invalid one *)
Readable(t) == \A i \in RuleIds : t[i] # NoRow => ValidRule(t[i])

RulesOf(t) == {t[i] : i \in RuleIds} \ {NoRow}

(* policy_version_for: a digest of these columns of every rule.            *)
PolicyVersion(t) ==
  {<<i, t[i].tool, t[i].class, t[i].scope, t[i].allowed, t[i].version>> :
     i \in {j \in RuleIds : t[j] # NoRow}}

(* ux_policy_rules_tool_class_scope.                                       *)
SameKey(r, o) == r # NoRow /\ o # NoRow /\
                 r.tool = o.tool /\ r.class = o.class /\ r.scope = o.scope

KeyTaken(i, r) == \E j \in RuleIds \ {i} : SameKey(r, rules[j])

(* Another transaction has written, moved or deleted a row of this key.    *)
KeyPending(s, i, r) ==
  \E o \in Admins \ {s} :
    /\ Writing(o) /\ ses[o].id # i
    /\ SameKey(r, ses[o].write) \/ SameKey(r, rules[ses[o].id])

RowLocked(s, i) == \E o \in Admins \ {s} : Writing(o) /\ ses[o].id = i

(* A PATCH gives one or more columns and keeps the others.                 *)
Replacements(r) ==
  {n \in [tool    : IF "tool" \in Patchable THEN Tools ELSE {r.tool},
          class   : IF "class" \in Patchable THEN Classes ELSE {r.class},
          scope   : IF "scope" \in Patchable THEN Scopes ELSE {r.scope},
          allowed : IF "allowed" \in Patchable THEN NewAllowed \cup {r.allowed} ELSE {r.allowed},
          reason  : IF "reason" \in Patchable THEN Reasons ELSE {r.reason},
          version : {r.version + 1}] : ValidRule(n)}

(* The UPDATE sets the columns that differ from the loaded row, on top of  *)
(* whatever the row holds when the lock is granted.                        *)
Merged(entity, loaded, current) ==
  [c \in DOMAIN current |-> IF entity[c] # loaded[c] THEN entity[c] ELSE current[c]]

---------------------------------------------------------------------------
(* Admin requests.                                                         *)

SetSession(s, new) == ses' = [ses EXCEPT ![s] = new]
Abort(s) == SetSession(s, IdleSession)

(* PolicyRule.create: a new id, version 1.                                 *)
Create(s, i) ==
  /\ ses[s].pc = "idle"
  /\ trail[i] = "none"
  /\ \A o \in Admins : ses[o].pc # "idle" => ses[o].id # i
  /\ \E n \in [tool : Tools, class : Classes, scope : Scopes, allowed : NewAllowed,
               reason : Reasons, version : {1}] :
       /\ ValidRule(n)
       /\ SetSession(s, [IdleSession EXCEPT !.pc = "flush", !.id = i, !.entity = n])
  /\ UNCHANGED <<rules, trail, api, worker>>

(* get and replace.  A row that is no valid PolicyRule raises here.        *)
StartUpdate(s, i) ==
  /\ ses[s].pc = "idle"
  /\ rules[i] # NoRow /\ ValidRule(rules[i])
  /\ rules[i].version < MaxVersion
  /\ \E n \in Replacements(rules[i]) :
       SetSession(s, [IdleSession EXCEPT !.pc = "save", !.op = "updated", !.id = i, !.entity = n])
  /\ UNCHANGED <<rules, trail, api, worker>>

StartDelete(s, i) ==
  /\ ses[s].pc = "idle"
  /\ rules[i] # NoRow /\ ValidRule(rules[i])
  /\ SetSession(s, [IdleSession EXCEPT !.pc = "save", !.op = "deleted", !.id = i])
  /\ UNCHANGED <<rules, trail, api, worker>>

(* save and delete read the row again; a missing one is a 404.             *)
Load(s) ==
  LET i == ses[s].id
  IN  /\ ses[s].pc = "save"
      /\ IF rules[i] = NoRow
           THEN Abort(s)
           ELSE SetSession(s, [ses[s] EXCEPT !.pc = "flush", !.loaded = rules[i]])
      /\ UNCHANGED <<rules, trail, api, worker>>

(* What the flush leaves in the row.                                       *)
Flushed(s) ==
  CASE ses[s].op = "created" -> ses[s].entity
    [] ses[s].op = "updated" -> Merged(ses[s].entity, ses[s].loaded, rules[ses[s].id])
    [] ses[s].op = "deleted" -> NoRow

(* Mutant: an UPDATE that finds no row is taken for a success.             *)
Flush_NoRowCount(s) ==
  LET i == ses[s].id
  IN  /\ ses[s].pc = "flush"
      /\ ~RowLocked(s, i)
      /\ IF ses[s].op = "updated" /\ rules[i] = NoRow
           THEN SetSession(s, [ses[s] EXCEPT !.pc = "flushed", !.loaded = NoRow])
           ELSE /\ ~KeyPending(s, i, Flushed(s))
                /\ IF KeyTaken(i, Flushed(s))
                     THEN Abort(s)
                     ELSE SetSession(s, [ses[s] EXCEPT !.pc = "flushed", !.loaded = NoRow,
                                                       !.write = Flushed(s)])
      /\ UNCHANGED <<rules, trail, api, worker>>

(* The flush, and the change record after it.  It waits for the row and    *)
(* for the index; an UPDATE of a row that is gone and a taken key raise.   *)
Flush(s) ==
  LET i == ses[s].id
  IN  /\ ses[s].pc = "flush"
      /\ ~RowLocked(s, i)
      /\ IF ses[s].op = "updated" /\ rules[i] = NoRow
           THEN Abort(s)
           ELSE /\ ~KeyPending(s, i, Flushed(s))
                /\ IF KeyTaken(i, Flushed(s))
                     THEN Abort(s)
                     ELSE SetSession(s, [ses[s] EXCEPT !.pc = "flushed", !.loaded = NoRow,
                                                       !.write = Flushed(s)])
      /\ UNCHANGED <<rules, trail, api, worker>>

(* _publish lists the rules in the session's own, uncommitted view ...     *)
ListRules(s) ==
  LET view == [rules EXCEPT ![ses[s].id] = ses[s].write]
  IN  /\ ses[s].pc = "flushed"
      /\ IF Readable(view)
           THEN SetSession(s, [ses[s] EXCEPT !.pc = "listed", !.view = view])
           ELSE Abort(s)
      /\ UNCHANGED <<rules, trail, api, worker>>

(* ... and replaces the process's cache with it.                           *)
Publish(s) ==
  /\ ses[s].pc = "listed"
  /\ api' = ses[s].view
  /\ SetSession(s, [ses[s] EXCEPT !.pc = "done", !.view = Empty])
  /\ UNCHANGED <<rules, trail, worker>>

(* get_db commits after the handler has returned.                          *)
Commit(s) ==
  LET i == ses[s].id
      new == [rules EXCEPT ![i] = ses[s].write]
  IN  /\ ses[s].pc = "done"
      /\ rules' = new
      /\ trail' = [trail EXCEPT ![i] = ses[s].op]
      /\ worker' = [w \in Workers |-> [worker[w] EXCEPT !.since = IF @ = {} THEN {} ELSE @ \cup {new}]]
      /\ Abort(s)
      /\ UNCHANGED api

(* The request fails anywhere: a lost connection, a cancelled request, a   *)
(* commit that raises.  The cache keeps what was published.                *)
Rollback(s) ==
  /\ ses[s].pc # "idle"
  /\ Abort(s)
  /\ UNCHANGED <<rules, trail, api, worker>>

(* The API process restarts; its start-up loads the table.                 *)
ApiRestart ==
  /\ Readable(rules)
  /\ ses' = [s \in Admins |-> IdleSession]
  /\ api' = rules
  /\ UNCHANGED <<rules, trail, worker>>

---------------------------------------------------------------------------
(* The worker.                                                             *)

WorkerProcess == [pc : {"down", "poll", "refresh", "decide"}, cache : Table, since : SUBSET Table]

(* run_worker loads the rules before it polls; an unreadable row ends it.  *)
WorkerStart(w) ==
  /\ worker[w].pc = "down"
  /\ Readable(rules)
  /\ worker' = [worker EXCEPT ![w] = [pc |-> "poll", cache |-> rules, since |-> {}]]
  /\ UNCHANGED <<rules, trail, ses, api>>

WorkerCrash(w) ==
  /\ worker[w].pc # "down"
  /\ worker' = [worker EXCEPT ![w] = [pc |-> "down", cache |-> Empty, since |-> {}]]
  /\ UNCHANGED <<rules, trail, ses, api>>

BeginMessage(w) ==
  /\ worker[w].pc = "poll"
  /\ worker' = [worker EXCEPT ![w].pc = "refresh", ![w].since = {rules}]
  /\ UNCHANGED <<rules, trail, ses, api>>

(* Mutant: the rules are loaded at start-up only.                          *)
RefreshPolicyCache_AtStartOnly(w) ==
  /\ worker[w].pc = "refresh"
  /\ worker' = [worker EXCEPT ![w].pc = "decide"]
  /\ UNCHANGED <<rules, trail, ses, api>>

(* _handle_opened: the refresh comes first; if it raises, the message is   *)
(* left to the queue.  The graph runs on the event loop that would load    *)
(* rules, so the cache stays as it is until the handler is done.           *)
RefreshPolicyCache(w) ==
  /\ worker[w].pc = "refresh"
  /\ worker' = IF Readable(rules)
                 THEN [worker EXCEPT ![w].pc = "decide", ![w].cache = rules]
                 ELSE [worker EXCEPT ![w].pc = "poll", ![w].since = {}]
  /\ UNCHANGED <<rules, trail, ses, api>>

EndMessage(w) ==
  /\ worker[w].pc = "decide"
  /\ worker' = [worker EXCEPT ![w].pc = "poll", ![w].since = {}]
  /\ UNCHANGED <<rules, trail, ses, api>>

---------------------------------------------------------------------------
Init ==
  /\ rules = Empty
  /\ trail = [i \in RuleIds |-> "none"]
  /\ ses = [s \in Admins |-> IdleSession]
  /\ api = Empty
  /\ worker = [w \in Workers |-> [pc |-> "down", cache |-> Empty, since |-> {}]]

AdminStep(s) ==
  \/ \E i \in RuleIds : Create(s, i) \/ StartUpdate(s, i) \/ StartDelete(s, i)
  \/ Load(s)
  \/ Flush(s)
  \/ ListRules(s)
  \/ Publish(s)
  \/ Commit(s)
  \/ Rollback(s)

WorkerStep(w) ==
  \/ WorkerStart(w)
  \/ WorkerCrash(w)
  \/ BeginMessage(w)
  \/ RefreshPolicyCache(w)
  \/ EndMessage(w)

Next ==
  \/ \E s \in Admins : AdminStep(s)
  \/ ApiRestart
  \/ \E w \in Workers : WorkerStep(w)

Spec == Init /\ [][Next]_vars

---------------------------------------------------------------------------
(* Properties.                                                             *)

(* Every variable has the shape the code gives it.                         *)
PolicyTypeOK ==
  /\ rules \in Table
  /\ trail \in [RuleIds -> {"none", "created", "updated", "deleted"}]
  /\ ses \in [Admins -> Session]
  /\ api \in Table
  /\ worker \in [Workers -> WorkerProcess]

(* The last change record of a rule says whether the rule exists: a        *)
(* request that loses a race with a deletion fails and records nothing.    *)
TrailTellsPresence ==
  \A i \in RuleIds : rules[i] = NoRow <=> trail[i] \in {"none", "deleted"}

(* Whatever columns concurrent updates write over one another, no allowed  *)
(* destructive rule is ever committed (it would make every later load of   *)
(* the table raise): each request lists the table as PolicyRule objects    *)
(* after its own write and before its commit.                              *)
NoDestructiveAllow == \A r \in RulesOf(rules) : ~(r.allowed /\ r.class = DESTRUCTIVE)

(* A rule change that was committed before a message began is in force for *)
(* every tool call of that message: the worker's rules were the committed  *)
(* ones at some moment since the message began.                            *)
WorkerIsFresh == \A w \in Workers : worker[w].pc = "decide" => worker[w].cache \in worker[w].since

(* The points of evaluate_policy mean what its comment says, for every set *)
(* of rules that admins can leave in the table: a request may be allowed   *)
(* exactly if some matching allow rule is more specific than every         *)
(* matching deny rule.                                                     *)
MostSpecificWins ==
  Readable(rules) =>
    \A q \in Requests :
      MayAllow(RulesOf(rules), q) <=> SomeAllowBeatsEveryDeny(RulesOf(rules), q)

---------------------------------------------------------------------------
(* What the repository says and the code does not keep.                    *)

(* version.py:4: "any create / edit / delete changes it".                  *)
EditChangesPolicyVersion ==
  [][rules' # rules => PolicyVersion(rules') # PolicyVersion(rules)]_vars

(* cache.py:1: "In-process snapshot of POLICY_RULE."                       *)
CacheIsSnapshot == (\A s \in Admins : ses[s].pc = "idle") => api = rules
===========================================================================
