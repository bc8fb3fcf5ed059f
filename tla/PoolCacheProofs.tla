--------------------------- MODULE PoolCacheProofs ---------------------------
(***************************************************************************)
(* Type correctness of PoolCache and its main safety property, for every   *)
(* number of rows, admin requests and proxy requests.                      *)
(*                                                                         *)
(* The typing argument is the row-lock argument: an open transaction keeps *)
(* the row it updates and the group it refers to alive until it commits,   *)
(* because whoever would delete them waits for its locks.                  *)
(***************************************************************************)
EXTENDS PoolCache, TLAPS

\* Two open transactions never hold conflicting locks.
LockInv ==
    \A a, b \in Admin :
        a # b /\ Flushed(a) /\ Flushed(b) => ~Conflict(req[a], req[b], db)

\* What a flushed statement needed is still there.
FlushInv == \A a \in Admin : Flushed(a) => Flushable(req[a], db)

TInv == TypeOK /\ LockInv /\ FlushInv

-----------------------------------------------------------------------------
\* The fields of a request, by its handler.

LEMMA RequestFields ==
    ASSUME NEW r \in Request
    PROVE  \/ r.handler = "create_provider_sub" /\ r.id \in Sub /\ r.row \in SubRow
           \/ r.handler = "update_provider_sub" /\ r.id \in Sub /\ r.body \in SubBody
           \/ r.handler = "refresh_provider_sub" /\ r.id \in Sub /\ r.body \in RefreshBody
           \/ r.handler = "delete_provider_sub" /\ r.id \in Sub
           \/ r.handler = "create_subscription_group" /\ r.id \in Group
           \/ r.handler = "delete_subscription_group" /\ r.id \in Group
           \/ r.handler = "create_filter_rule" /\ r.id \in Rule /\ r.row \in RuleRow
           \/ r.handler = "update_filter_rule" /\ r.id \in Rule /\ r.body \in RuleBody
           \/ r.handler = "delete_filter_rule" /\ r.id \in Rule
BY DEF Request

\* A patched row is a row, and its group is its old one or the one written.
LEMMA PatchedSubRow ==
    ASSUME NEW row \in SubRow, NEW body \in SubBody \cup RefreshBody
    PROVE  /\ PatchedSub(row, body) \in SubRow
           /\ PatchedSub(row, body).group_id \in {row.group_id, body.group_id}
           /\ body.group_id = None => PatchedSub(row, body).group_id = row.group_id
BY DEF PatchedSub, SubRow, SubBody, RefreshBody, Or

LEMMA PatchedRuleRow ==
    ASSUME NEW row \in RuleRow, NEW body \in RuleBody
    PROVE  PatchedRule(row, body) \in RuleRow
BY DEF PatchedRule, RuleRow, RuleBody, Or

\* Committing a request whose row and group are there keeps the tables well
\* formed.
LEMMA EffectTyped ==
    ASSUME NEW d \in Database, GroupsExist(d), NEW r \in Request,
           Flushable(r, d)
    PROVE  Effect(r, d) \in Database /\ GroupsExist(Effect(r, d))
<1> USE DEF Flushable
<1>0. /\ d.subs \in [Sub -> SubRow \cup {NoRow}]
      /\ d.groups \in SUBSET Group
      /\ d.rules \in [Rule -> RuleRow \cup {NoRow}]
      /\ d = [subs |-> d.subs, groups |-> d.groups, rules |-> d.rules]
  BY DEF Database
<1>1. CASE r.handler = "create_provider_sub"
  <2>1. r.id \in Sub /\ r.row \in SubRow
    BY <1>1, RequestFields
  <2>2. r.row.group_id \in d.groups \cup {NoGroup}
    BY <1>1 DEF Refs
  <2>3. Effect(r, d) = [d EXCEPT !.subs[r.id] = r.row]
    BY <1>1 DEF Effect
  <2> QED BY <2>1, <2>2, <2>3, <1>0 DEF Database, GroupsExist
<1>2. CASE r.handler \in {"update_provider_sub", "refresh_provider_sub"}
  <2>1. r.id \in Sub /\ r.body \in SubBody \cup RefreshBody
    BY <1>2, RequestFields
  <2>2. d.subs[r.id] \in SubRow
    BY <1>2, <2>1, <1>0
  <2> DEFINE row == PatchedSub(d.subs[r.id], r.body)
  <2>3. row \in SubRow
    BY <2>1, <2>2, PatchedSubRow
  <2>4. d.subs[r.id].group_id \in d.groups \cup {NoGroup}
    BY <1>2, <2>1 DEF GroupsExist
  <2>5. row.group_id \in d.groups \cup {NoGroup}
    <3>1. CASE r.body.group_id = None
      BY <3>1, <2>1, <2>2, <2>4, PatchedSubRow
    <3>2. CASE r.body.group_id # None
      <4>1. r.handler = "update_provider_sub"
        BY <1>2, <3>2, RequestFields DEF RefreshBody
      <4>2. r.body.group_id \in d.groups
        BY <4>1, <3>2 DEF Refs
      <4> QED BY <4>2, <2>1, <2>2, <2>4, PatchedSubRow
    <3> QED BY <3>1, <3>2
  <2>6. Effect(r, d) = [d EXCEPT !.subs[r.id] = row]
    BY <1>2 DEF Effect
  <2> HIDE DEF row
  <2> QED BY <2>1, <2>3, <2>5, <2>6, <1>0 DEF Database, GroupsExist
<1>3. CASE r.handler = "delete_provider_sub"
  <2>1. Effect(r, d) = [d EXCEPT !.subs[r.id] = NoRow]
    BY <1>3 DEF Effect
  <2> QED BY <1>3, <2>1, <1>0, RequestFields DEF Database, GroupsExist
<1>4. CASE r.handler = "create_subscription_group"
  <2>1. Effect(r, d) = [d EXCEPT !.groups = @ \cup {r.id}]
    BY <1>4 DEF Effect
  <2>2. r.id \in Group
    BY <1>4, RequestFields
  <2> QED BY <2>1, <2>2, <1>0 DEF Database, GroupsExist
<1>5. CASE r.handler = "delete_subscription_group"
  <2> DEFINE subs == Ungrouped(d.subs, r.id)
  <2>1. Effect(r, d) = [d EXCEPT !.groups = @ \ {r.id}, !.subs = subs]
    BY <1>5 DEF Effect
  <2>2. subs \in [Sub -> SubRow \cup {NoRow}]
    BY <1>0 DEF Ungrouped, SubRow
  <2>3. ASSUME NEW s \in Sub, subs[s] # NoRow
        PROVE  subs[s].group_id \in (d.groups \ {r.id}) \cup {NoGroup}
    <3>1. d.subs[s] # NoRow /\ d.subs[s] \in SubRow
      BY <2>3, <1>0 DEF Ungrouped
    <3>2. d.subs[s].group_id \in d.groups \cup {NoGroup}
      BY <3>1 DEF GroupsExist
    <3>3. CASE d.subs[s].group_id = r.id
      BY <3>1, <3>3 DEF Ungrouped, SubRow
    <3>4. CASE d.subs[s].group_id # r.id
      BY <3>1, <3>2, <3>4 DEF Ungrouped
    <3> QED BY <3>3, <3>4
  <2> HIDE DEF subs
  <2>4. Effect(r, d).groups = d.groups \ {r.id} /\ Effect(r, d).subs = subs
    BY <2>1, <1>0
  <2>5. Effect(r, d) \in Database
    BY <2>1, <2>2, <1>0 DEF Database
  <2> QED BY <2>3, <2>4, <2>5 DEF GroupsExist
<1>6. CASE r.handler = "create_filter_rule"
  <2>1. Effect(r, d) = [d EXCEPT !.rules[r.id] = r.row]
    BY <1>6 DEF Effect
  <2> QED BY <1>6, <2>1, <1>0, RequestFields DEF Database, GroupsExist
<1>7. CASE r.handler = "update_filter_rule"
  <2>1. r.id \in Rule /\ r.body \in RuleBody
    BY <1>7, RequestFields
  <2>2. PatchedRule(d.rules[r.id], r.body) \in RuleRow
    BY <1>7, <2>1, <1>0, PatchedRuleRow
  <2>3. Effect(r, d) = [d EXCEPT !.rules[r.id] = PatchedRule(d.rules[r.id], r.body)]
    BY <1>7 DEF Effect
  <2> QED BY <2>1, <2>2, <2>3, <1>0 DEF Database, GroupsExist
<1>8. CASE r.handler = "delete_filter_rule"
  <2>1. Effect(r, d) = [d EXCEPT !.rules[r.id] = NoRow]
    BY <1>8 DEF Effect
  <2> QED BY <1>8, <2>1, <1>0, RequestFields DEF Database, GroupsExist
<1> QED BY <1>1, <1>2, <1>3, <1>4, <1>5, <1>6, <1>7, <1>8, RequestFields

\* A commit changes only rows its transaction has locked.
LEMMA EffectFrame ==
    ASSUME NEW d \in Database, NEW r \in Request
    PROVE  /\ \A s \in Sub \ Locks(r, d) : Effect(r, d).subs[s] = d.subs[s]
           /\ \A g \in d.groups \ {r.id} : g \in Effect(r, d).groups
           /\ \A x \in Rule \ {r.id} : Effect(r, d).rules[x] = d.rules[x]
<1>0. /\ d.subs \in [Sub -> SubRow \cup {NoRow}]
      /\ d.rules \in [Rule -> RuleRow \cup {NoRow}]
      /\ d = [subs |-> d.subs, groups |-> d.groups, rules |-> d.rules]
  BY DEF Database
<1>1. CASE r.handler = "delete_subscription_group"
  <2>1. Effect(r, d) = [d EXCEPT !.groups = @ \ {r.id}, !.subs = Ungrouped(@, r.id)]
    BY <1>1 DEF Effect
  <2>2. \A s \in Sub \ Locks(r, d) : Ungrouped(d.subs, r.id)[s] = d.subs[s]
    BY <1>1 DEF Locks, Ungrouped
  <2> QED BY <2>1, <2>2, <1>0
<1>2. CASE r.handler # "delete_subscription_group"
  <2>1. Locks(r, d) = {r.id}
    BY <1>2 DEF Locks
  <2>2. CASE r.handler = "create_provider_sub"
    <3>1. Effect(r, d) = [d EXCEPT !.subs[r.id] = r.row]
      BY <2>2 DEF Effect
    <3> QED BY <2>1, <3>1, <1>0
  <2>3. CASE r.handler \in {"update_provider_sub", "refresh_provider_sub"}
    <3>1. Effect(r, d) = [d EXCEPT !.subs[r.id] = PatchedSub(@, r.body)]
      BY <2>3 DEF Effect
    <3> QED BY <2>1, <3>1, <1>0
  <2>4. CASE r.handler = "delete_provider_sub"
    <3>1. Effect(r, d) = [d EXCEPT !.subs[r.id] = NoRow]
      BY <2>4 DEF Effect
    <3> QED BY <2>1, <3>1, <1>0
  <2>5. CASE r.handler = "create_subscription_group"
    <3>1. Effect(r, d) = [d EXCEPT !.groups = @ \cup {r.id}]
      BY <2>5 DEF Effect
    <3> QED BY <2>1, <3>1, <1>0
  <2>6. CASE r.handler = "create_filter_rule"
    <3>1. Effect(r, d) = [d EXCEPT !.rules[r.id] = r.row]
      BY <2>6 DEF Effect
    <3> QED BY <2>1, <3>1, <1>0
  <2>7. CASE r.handler = "update_filter_rule"
    <3>1. Effect(r, d) = [d EXCEPT !.rules[r.id] = PatchedRule(@, r.body)]
      BY <2>7 DEF Effect
    <3> QED BY <2>1, <3>1, <1>0
  <2>8. CASE r.handler = "delete_filter_rule"
    <3>1. Effect(r, d) = [d EXCEPT !.rules[r.id] = NoRow]
      BY <2>8 DEF Effect
    <3> QED BY <2>1, <3>1, <1>0
  <2> QED BY <1>2, <2>2, <2>3, <2>4, <2>5, <2>6, <2>7, <2>8, RequestFields
<1> QED BY <1>1, <1>2

\* A commit puts a subscription into a group only if its transaction refers to
\* that group.
LEMMA EffectGroup ==
    ASSUME NEW d \in Database, NEW r \in Request, Flushable(r, d),
           NEW s \in Sub, Effect(r, d).subs[s] # NoRow,
           Effect(r, d).subs[s].group_id \in Group
    PROVE  \/ Effect(r, d).subs[s].group_id \in Refs(r)
           \/ /\ d.subs[s] # NoRow
              /\ Effect(r, d).subs[s].group_id = d.subs[s].group_id
<1>0. /\ d.subs \in [Sub -> SubRow \cup {NoRow}]
      /\ d = [subs |-> d.subs, groups |-> d.groups, rules |-> d.rules]
      /\ NoGroup \notin Group
  BY ConstantsAssumption DEF Database
<1>1. CASE r.handler = "create_provider_sub"
  <2>1. Effect(r, d) = [d EXCEPT !.subs[r.id] = r.row]
    BY <1>1 DEF Effect
  <2>2. Refs(r) = {r.row.group_id} \ {NoGroup}
    BY <1>1 DEF Refs
  <2> QED BY <2>1, <2>2, <1>0
<1>2. CASE r.handler \in {"update_provider_sub", "refresh_provider_sub"}
  <2>1. Effect(r, d) = [d EXCEPT !.subs[r.id] = PatchedSub(@, r.body)]
    BY <1>2 DEF Effect
  <2>2. r.id \in Sub /\ r.body \in SubBody \cup RefreshBody /\ d.subs[r.id] \in SubRow
    BY <1>2, <1>0, RequestFields DEF Flushable
  <2>3. CASE s # r.id
    BY <2>1, <2>3, <1>0
  <2>4. CASE s = r.id
    <3>1. Effect(r, d).subs[s] = PatchedSub(d.subs[s], r.body)
      BY <2>1, <2>4, <1>0
    <3>2. CASE r.body.group_id = None
      BY <3>1, <3>2, <2>2, <2>4, <1>2, PatchedSubRow DEF Flushable
    <3>3. CASE r.body.group_id # None
      <4>1. r.handler = "update_provider_sub"
        BY <1>2, <3>3, RequestFields DEF RefreshBody
      <4>2. Refs(r) = {r.body.group_id}
        BY <4>1, <3>3 DEF Refs
      <4> QED BY <3>1, <4>2, <2>2, <2>4, <1>2, PatchedSubRow DEF Flushable
    <3> QED BY <3>2, <3>3
  <2> QED BY <2>3, <2>4
<1>3. CASE r.handler = "delete_provider_sub"
  <2>1. Effect(r, d) = [d EXCEPT !.subs[r.id] = NoRow]
    BY <1>3 DEF Effect
  <2> QED BY <2>1, <1>0
<1>4. CASE r.handler = "delete_subscription_group"
  <2>1. Effect(r, d) = [d EXCEPT !.groups = @ \ {r.id}, !.subs = Ungrouped(@, r.id)]
    BY <1>4 DEF Effect
  <2>2. Effect(r, d).subs[s] = Ungrouped(d.subs, r.id)[s]
    BY <2>1, <1>0
  <2> QED BY <2>2, <1>0 DEF Ungrouped, SubRow
<1>5. CASE r.handler \in {"create_subscription_group", "create_filter_rule",
                          "update_filter_rule", "delete_filter_rule"}
  <2>1. Effect(r, d).subs = d.subs
    <3>1. CASE r.handler = "create_subscription_group"
      <4>1. Effect(r, d) = [d EXCEPT !.groups = @ \cup {r.id}]
        BY <3>1 DEF Effect
      <4> QED BY <4>1, <1>0
    <3>2. CASE r.handler = "create_filter_rule"
      <4>1. Effect(r, d) = [d EXCEPT !.rules[r.id] = r.row]
        BY <3>2 DEF Effect
      <4> QED BY <4>1, <1>0
    <3>3. CASE r.handler = "update_filter_rule"
      <4>1. Effect(r, d) = [d EXCEPT !.rules[r.id] = PatchedRule(@, r.body)]
        BY <3>3 DEF Effect
      <4> QED BY <4>1, <1>0
    <3>4. CASE r.handler = "delete_filter_rule"
      <4>1. Effect(r, d) = [d EXCEPT !.rules[r.id] = NoRow]
        BY <3>4 DEF Effect
      <4> QED BY <4>1, <1>0
    <3> QED BY <1>5, <3>1, <3>2, <3>3, <3>4
  <2> QED BY <2>1
<1> QED BY <1>1, <1>2, <1>3, <1>4, <1>5, RequestFields

LEMMA ConflictSymmetric ==
    ASSUME NEW p, NEW q, NEW d, Conflict(p, q, d)
    PROVE  Conflict(q, p, d)
BY DEF Conflict

\* The commit of p takes nothing away that an open transaction q holds, and
\* gives q no further lock.
LEMMA CommitKeepsLocks ==
    ASSUME NEW d \in Database, NEW p \in Request, NEW q \in Request,
           Flushable(p, d), Flushable(q, d), ~Conflict(p, q, d)
    PROVE  /\ Flushable(q, Effect(p, d))
           /\ Locks(q, Effect(p, d)) \subseteq Locks(q, d)
<1> DEFINE e == Effect(p, d)
<1>1. q.id \notin Locks(p, d) /\ q.id # p.id /\ p.id \notin Refs(q)
      /\ Refs(p) \cap Locks(q, d) = {}
  BY DEF Conflict, Locks
<1>2. Flushable(q, e)
  <2>1. ASSUME q.handler \in {"update_provider_sub", "refresh_provider_sub"}
        PROVE  e.subs[q.id] # NoRow
    <3>1. q.id \in Sub
      BY <2>1, RequestFields
    <3>2. e.subs[q.id] = d.subs[q.id]
      BY <3>1, <1>1, EffectFrame
    <3> QED BY <2>1, <3>2 DEF Flushable
  <2>2. ASSUME q.handler = "update_filter_rule"
        PROVE  e.rules[q.id] # NoRow
    <3>1. q.id \in Rule
      BY <2>2, RequestFields
    <3>2. e.rules[q.id] = d.rules[q.id]
      BY <3>1, <1>1, EffectFrame
    <3> QED BY <2>2, <3>2 DEF Flushable
  <2>3. Refs(q) \subseteq e.groups
    BY <1>1, EffectFrame DEF Flushable
  <2> HIDE DEF e
  <2> QED BY <2>1, <2>2, <2>3 DEF Flushable
<1>3. ASSUME NEW s \in Locks(q, e) PROVE s \in Locks(q, d)
  <2>1. CASE s = q.id
    BY <2>1 DEF Locks
  <2>2. CASE s # q.id
    <3>1. /\ q.handler = "delete_subscription_group"
          /\ s \in Sub /\ e.subs[s] # NoRow /\ e.subs[s].group_id = q.id
      BY <2>2, <1>3 DEF Locks
    <3>2. q.id \in Group /\ q.id \in Locks(q, d)
      BY <3>1, RequestFields DEF Locks
    <3>3. q.id \notin Refs(p)
      BY <3>2, <1>1
    <3>4. d.subs[s] # NoRow /\ d.subs[s].group_id = q.id
      BY <3>1, <3>2, <3>3, EffectGroup
    <3> QED BY <3>1, <3>4 DEF Locks
  <2> QED BY <2>1, <2>2
<1> HIDE DEF e
<1> QED BY <1>2, <1>3 DEF e

-----------------------------------------------------------------------------
\* Type correctness.

LEMMA InitTInv == Init => TInv
<1> SUFFICES ASSUME Init PROVE TInv
  OBVIOUS
<1>1. EmptyPool \in Pool
  BY DEF EmptyPool, Pool
<1>2. TypeOK
  BY <1>1, ConstantsAssumption DEF Init, TypeOK
<1>3. LockInv /\ FlushInv
  BY DEF Init, LockInv, FlushInv, Flushed
<1> QED BY <1>2, <1>3 DEF TInv

\* Steps that leave the tables alone and flush nothing keep the lock invariants.
LEMMA LocksUnchanged ==
    ASSUME TInv, db' = db,
           \A a \in Admin : Flushed(a)' => Flushed(a) /\ req'[a] = req[a]
    PROVE  (LockInv /\ FlushInv)'
<1>1. LockInv'
  <2> SUFFICES ASSUME NEW a \in Admin, NEW b \in Admin, a # b,
                      Flushed(a)', Flushed(b)'
               PROVE  ~Conflict(req'[a], req'[b], db')
    BY DEF LockInv
  <2> QED BY DEF TInv, LockInv
<1>2. FlushInv'
  BY DEF TInv, FlushInv
<1> QED BY <1>1, <1>2

LEMMA PoolOfTyped ==
    ASSUME NEW d \in Database
    PROVE  EntriesOf(d) \in SUBSET Entry /\ PatternsOf(d) \in SUBSET Pattern
<1>1. EntriesOf(d) \in SUBSET Entry
  BY DEF EntriesOf, Entry, Database, SubRow
<1>2. PatternsOf(d) \in SUBSET Pattern
  BY DEF PatternsOf, Database, RuleRow
<1> QED BY <1>1, <1>2

LEMMA NextTInv == TInv /\ [Next]_vars => TInv'
<1> SUFFICES ASSUME TInv, [Next]_vars PROVE TInv'
  OBVIOUS
<1> USE DEF TInv
<1>1. ASSUME NEW a \in Admin, NEW r \in Request, Load(a, r) PROVE TInv'
  <2>1. TypeOK'
    BY <1>1, ConstantsAssumption DEF Load, TypeOK, clientVars
  <2>2. db' = db /\ \A b \in Admin : Flushed(b)' => Flushed(b) /\ req'[b] = req[b]
    BY <1>1 DEF Load, TypeOK, Flushed
  <2> QED BY <2>1, <2>2, LocksUnchanged
<1>2. ASSUME NEW a \in Admin, Flush(a) PROVE TInv'
  <2>1. TypeOK'
    BY <1>2 DEF Flush, TypeOK, clientVars
  <2>2. /\ db' = db /\ req' = req
        /\ \A b \in Admin \ {a} : Flushed(b)' = Flushed(b)
        /\ \A b \in Admin \ {a} : Flushed(b) => ~Conflict(req[a], req[b], db)
        /\ Flushable(req[a], db)
    BY <1>2 DEF Flush, Flushed, TypeOK, Blocked
  <2>3. ASSUME NEW b \in Admin, NEW c \in Admin, b # c, Flushed(b)', Flushed(c)'
        PROVE  ~Conflict(req[b], req[c], db)
    <3>1. CASE b = a
      BY <2>2, <2>3, <3>1
    <3>2. CASE c = a
      BY <2>2, <2>3, <3>2, ConflictSymmetric
    <3>3. CASE b # a /\ c # a
      BY <2>2, <2>3, <3>3 DEF LockInv
    <3> QED BY <3>1, <3>2, <3>3
  <2>4. LockInv'
    BY <2>2, <2>3 DEF LockInv
  <2>5. FlushInv'
    BY <2>2 DEF FlushInv
  <2> QED BY <2>1, <2>4, <2>5
<1>3. ASSUME NEW a \in Admin, IncrVersion(a) PROVE TInv'
  <2>1. TypeOK'
    BY <1>3 DEF IncrVersion, TypeOK, clientVars
  <2>2. db' = db /\ \A b \in Admin : Flushed(b)' => Flushed(b) /\ req'[b] = req[b]
    BY <1>3 DEF IncrVersion, TypeOK, Flushed
  <2> QED BY <2>1, <2>2, LocksUnchanged
<1>4. ASSUME NEW a \in Admin, DelPool(a) PROVE TInv'
  <2>1. TypeOK'
    BY <1>4 DEF DelPool, TypeOK, clientVars
  <2>2. db' = db /\ \A b \in Admin : Flushed(b)' => Flushed(b) /\ req'[b] = req[b]
    BY <1>4 DEF DelPool, TypeOK, Flushed
  <2> QED BY <2>1, <2>2, LocksUnchanged
<1>5. ASSUME NEW a \in Admin, Commit(a) PROVE TInv'
  <2>1. Flushed(a) /\ req[a] \in Request /\ Flushable(req[a], db)
    BY <1>5 DEF Commit, Flushed, TypeOK, FlushInv
  <2>2. /\ db' = Effect(req[a], db)
        /\ apc' = [apc EXCEPT ![a] = "idle"]
        /\ req' = [req EXCEPT ![a] = NoRequest]
    BY <1>5 DEF Commit
  <2>3. db' \in Database /\ GroupsExist(db')
    BY <2>1, <2>2, EffectTyped DEF TypeOK
  <2>4. TypeOK'
    <3>1. raced' \in [Client -> BOOLEAN]
      BY <1>5 DEF Commit, TypeOK, Bumps
    <3> QED BY <1>5, <2>2, <2>3, <3>1 DEF Commit, TypeOK
  <2>5. ASSUME NEW b \in Admin, Flushed(b)'
        PROVE  /\ b # a /\ Flushed(b) /\ req'[b] = req[b]
               /\ req[b] \in Request
               /\ Flushable(req[b], db') /\ Locks(req[b], db') \subseteq Locks(req[b], db)
    <3>1. b # a /\ Flushed(b) /\ req'[b] = req[b]
      BY <2>2, <2>5 DEF Flushed, TypeOK
    <3>2. req[b] \in Request
      BY <3>1 DEF TypeOK, Flushed
    <3>3. Flushable(req[b], db) /\ ~Conflict(req[a], req[b], db)
      BY <2>1, <3>1 DEF FlushInv, LockInv
    <3> QED BY <2>1, <2>2, <3>1, <3>2, <3>3, CommitKeepsLocks DEF TypeOK
  <2>6. FlushInv'
    BY <2>5 DEF FlushInv
  <2>7. LockInv'
    <3> SUFFICES ASSUME NEW b \in Admin, NEW c \in Admin, b # c,
                        Flushed(b)', Flushed(c)'
                 PROVE  ~Conflict(req'[b], req'[c], db')
      BY DEF LockInv
    <3>1. ~Conflict(req[b], req[c], db)
      BY <2>5 DEF LockInv
    <3> QED BY <3>1, <2>5 DEF Conflict
  <2> QED BY <2>4, <2>6, <2>7
<1>6. ASSUME NEW a \in Admin, RollBack(a) PROVE TInv'
  <2>1. TypeOK'
    BY <1>6 DEF RollBack, TypeOK, clientVars
  <2>2. db' = db /\ \A b \in Admin : Flushed(b)' => Flushed(b) /\ req'[b] = req[b]
    BY <1>6 DEF RollBack, TypeOK, Flushed
  <2> QED BY <2>1, <2>2, LocksUnchanged
<1>7. ASSUME NEW c \in Client, MissPool(c) \/ RebuildStep(c) PROVE TInv'
  <2>1. EntriesOf(db) \in SUBSET Entry /\ PatternsOf(db) \in SUBSET Pattern
    BY PoolOfTyped DEF TypeOK
  <2>2. CASE MissPool(c)
    <3>1. TypeOK'
      BY <2>2 DEF MissPool, TypeOK, adminVars
    <3>2. db' = db /\ apc' = apc /\ req' = req
      BY <2>2 DEF MissPool, adminVars
    <3> QED BY <3>1, <3>2, LocksUnchanged DEF Flushed
  <2>3. CASE ReadSubs(c)
    <3>1. built' \in [Client -> Pool]
      BY <2>1, <2>3 DEF ReadSubs, TypeOK, Pool
    <3>2. TypeOK'
      BY <2>3, <3>1 DEF ReadSubs, TypeOK, adminVars
    <3>3. db' = db /\ apc' = apc /\ req' = req
      BY <2>3 DEF ReadSubs, adminVars
    <3> QED BY <3>2, <3>3, LocksUnchanged DEF Flushed
  <2>4. CASE ReadRules(c)
    <3>1. built' \in [Client -> Pool]
      BY <2>1, <2>4 DEF ReadRules, TypeOK, Pool
    <3>2. TypeOK'
      BY <2>4, <3>1 DEF ReadRules, TypeOK, adminVars
    <3>3. db' = db /\ apc' = apc /\ req' = req
      BY <2>4 DEF ReadRules, adminVars
    <3> QED BY <3>2, <3>3, LocksUnchanged DEF Flushed
  <2>5. CASE SetCachedPool(c)
    <3>1. EmptyPool \in Pool /\ poolRaced' \in BOOLEAN
      BY <2>5 DEF EmptyPool, Pool, SetCachedPool, RacesTransaction, TypeOK, Bumps
    <3>2. TypeOK'
      BY <2>5, <3>1 DEF SetCachedPool, TypeOK, adminVars
    <3>3. db' = db /\ apc' = apc /\ req' = req
      BY <2>5 DEF SetCachedPool, adminVars
    <3> QED BY <3>2, <3>3, LocksUnchanged DEF Flushed
  <2>6. CASE AbandonRebuild(c)
    <3>1. EmptyPool \in Pool
      BY DEF EmptyPool, Pool
    <3>2. TypeOK'
      BY <2>6, <3>1 DEF AbandonRebuild, TypeOK, adminVars
    <3>3. db' = db /\ apc' = apc /\ req' = req
      BY <2>6 DEF AbandonRebuild, adminVars
    <3> QED BY <3>2, <3>3, LocksUnchanged DEF Flushed
  <2> QED BY <1>7, <2>2, <2>3, <2>4, <2>5, <2>6 DEF RebuildStep
<1>8. CASE ExpirePool
  <2>1. TypeOK'
    BY <1>8 DEF ExpirePool, TypeOK, adminVars, clientVars
  <2>2. db' = db /\ apc' = apc /\ req' = req
    BY <1>8 DEF ExpirePool, adminVars
  <2> QED BY <2>1, <2>2, LocksUnchanged DEF Flushed
<1>9. CASE UNCHANGED vars
  <2>1. TypeOK'
    BY <1>9 DEF vars, TypeOK
  <2>2. db' = db /\ apc' = apc /\ req' = req
    BY <1>9 DEF vars
  <2> QED BY <2>1, <2>2, LocksUnchanged DEF Flushed
<1> QED BY <1>1, <1>2, <1>3, <1>4, <1>5, <1>6, <1>7, <1>8, <1>9
        DEF Next, AdminStep

\* Every variable keeps its type and the foreign key holds, although the
\* transactions of any number of admin requests interleave.
THEOREM TypeCorrect == Spec => []TypeOK
<1>1. TInv => TypeOK
  BY DEF TInv
<1> QED BY <1>1, InitTInv, NextTInv, PTL DEF Spec

-----------------------------------------------------------------------------
\* A stale pool comes from a race.

\* A transaction has deleted pool:data and will change the pool.
Closing(a) == apc[a] = "commit" /\ Bumps(req[a])

\* What an undisturbed rebuild has read so far is still what the tables say.
ReaderInv ==
    \A c \in Client : ~raced[c] =>
        /\ cpc[c] \in {"rules", "set"} => built[c].entries = EntriesOf(db)
        /\ cpc[c] = "set" => built[c].patterns = PatternsOf(db)

\* A pool stored without a race is current, and since then no transaction has
\* got past its DEL: that DEL would have removed the pool.
CacheInv ==
    pool # NoPool /\ ~poolRaced =>
        pool = PoolOf(db) /\ \A a \in Admin : ~Closing(a)

IInv == TInv /\ ReaderInv /\ CacheInv

LEMMA GroupCreationKeepsPool ==
    ASSUME NEW d \in Database, NEW r \in Request, ~Bumps(r)
    PROVE  EntriesOf(Effect(r, d)) = EntriesOf(d) /\ PatternsOf(Effect(r, d)) = PatternsOf(d)
<1>1. Effect(r, d) = [d EXCEPT !.groups = @ \cup {r.id}]
  BY DEF Bumps, Effect
<1>2. Effect(r, d).subs = d.subs /\ Effect(r, d).rules = d.rules
  BY <1>1 DEF Database
<1> QED BY <1>2 DEF EntriesOf, PatternsOf

LEMMA InitIInv == Init => IInv
<1>1. Init => ReaderInv /\ CacheInv
  BY DEF Init, ReaderInv, CacheInv
<1> QED BY <1>1, InitTInv DEF IInv

LEMMA NextIInv == IInv /\ [Next]_vars => IInv'
<1> SUFFICES ASSUME IInv, [Next]_vars PROVE (ReaderInv /\ CacheInv)'
  BY NextTInv DEF IInv
<1> USE DEF IInv, TInv
<1>1. ASSUME NEW a \in Admin, NEW r \in Request, Load(a, r)
      PROVE (ReaderInv /\ CacheInv)'
  <2>1. ReaderInv'
    BY <1>1 DEF Load, clientVars, ReaderInv
  <2>2. \A b \in Admin : Closing(b)' => Closing(b)
    BY <1>1 DEF Load, TypeOK, Closing
  <2>3. CacheInv'
    BY <1>1, <2>2 DEF Load, CacheInv
  <2> QED BY <2>1, <2>3
<1>2. ASSUME NEW a \in Admin, Flush(a) PROVE (ReaderInv /\ CacheInv)'
  <2>1. ReaderInv'
    BY <1>2 DEF Flush, clientVars, ReaderInv
  <2>2. \A b \in Admin : Closing(b)' => Closing(b)
    BY <1>2 DEF Flush, TypeOK, Closing
  <2>3. CacheInv'
    BY <1>2, <2>2 DEF Flush, CacheInv
  <2> QED BY <2>1, <2>3
<1>3. ASSUME NEW a \in Admin, IncrVersion(a) PROVE (ReaderInv /\ CacheInv)'
  <2>1. ReaderInv'
    BY <1>3 DEF IncrVersion, clientVars, ReaderInv
  <2>2. \A b \in Admin : Closing(b)' => Closing(b)
    BY <1>3 DEF IncrVersion, TypeOK, Closing
  <2>3. CacheInv'
    BY <1>3, <2>2 DEF IncrVersion, CacheInv
  <2> QED BY <2>1, <2>3
<1>4. ASSUME NEW a \in Admin, DelPool(a) PROVE (ReaderInv /\ CacheInv)'
  BY <1>4 DEF DelPool, clientVars, ReaderInv, CacheInv
<1>5. ASSUME NEW a \in Admin, Commit(a) PROVE (ReaderInv /\ CacheInv)'
  <2>1. /\ db \in Database /\ req[a] \in Request /\ db' = Effect(req[a], db)
        /\ apc' = [apc EXCEPT ![a] = "idle"]
        /\ req' = [req EXCEPT ![a] = NoRequest]
        /\ UNCHANGED <<pool, poolRaced, cpc, built>>
        /\ raced' = [c \in Client |-> cpc[c] # "idle" /\ (raced[c] \/ Bumps(req[a]))]
    BY <1>5 DEF Commit, TypeOK
  <2>2. CASE Bumps(req[a])
    <3>1. Closing(a)
      BY <1>5, <2>2 DEF Commit, Closing
    <3>2. CacheInv'
      BY <2>1, <3>1 DEF CacheInv
    <3>3. ReaderInv'
      BY <2>1, <2>2 DEF ReaderInv
    <3> QED BY <3>2, <3>3
  <2>3. CASE ~Bumps(req[a])
    <3>1. EntriesOf(db') = EntriesOf(db) /\ PatternsOf(db') = PatternsOf(db)
      BY <2>1, <2>3, GroupCreationKeepsPool
    <3>2. ReaderInv'
      BY <2>1, <2>3, <3>1 DEF ReaderInv
    <3>3. \A b \in Admin : Closing(b)' => Closing(b)
      BY <2>1 DEF TypeOK, Closing
    <3>4. CacheInv'
      BY <2>1, <3>1, <3>3 DEF CacheInv, PoolOf
    <3> QED BY <3>2, <3>4
  <2> QED BY <2>2, <2>3
<1>6. ASSUME NEW a \in Admin, RollBack(a) PROVE (ReaderInv /\ CacheInv)'
  <2>1. ReaderInv'
    BY <1>6 DEF RollBack, clientVars, ReaderInv
  <2>2. \A b \in Admin : Closing(b)' => Closing(b)
    BY <1>6 DEF RollBack, TypeOK, Closing
  <2>3. CacheInv'
    BY <1>6, <2>2 DEF RollBack, CacheInv
  <2> QED BY <2>1, <2>3
<1>7. ASSUME NEW c \in Client, MissPool(c) PROVE (ReaderInv /\ CacheInv)'
  <2>1. ReaderInv'
    BY <1>7 DEF MissPool, TypeOK, ReaderInv
  <2>2. CacheInv'
    BY <1>7 DEF MissPool, CacheInv, Closing, adminVars
  <2> QED BY <2>1, <2>2
<1>8. ASSUME NEW c \in Client, ReadSubs(c) PROVE (ReaderInv /\ CacheInv)'
  <2>1. ReaderInv'
    BY <1>8 DEF ReadSubs, TypeOK, ReaderInv, Pool
  <2>2. CacheInv'
    BY <1>8 DEF ReadSubs, CacheInv, Closing, adminVars
  <2> QED BY <2>1, <2>2
<1>9. ASSUME NEW c \in Client, ReadRules(c) PROVE (ReaderInv /\ CacheInv)'
  <2>1. ReaderInv'
    BY <1>9 DEF ReadRules, TypeOK, ReaderInv, Pool
  <2>2. CacheInv'
    BY <1>9 DEF ReadRules, CacheInv, Closing, adminVars
  <2> QED BY <2>1, <2>2
<1>10. ASSUME NEW c \in Client, SetCachedPool(c) PROVE (ReaderInv /\ CacheInv)'
  <2>1. ReaderInv'
    BY <1>10 DEF SetCachedPool, TypeOK, ReaderInv
  <2>2. CacheInv'
    <3> SUFFICES ASSUME ~poolRaced' PROVE pool' = PoolOf(db) /\ \A a \in Admin : ~Closing(a)
      BY <1>10 DEF CacheInv, SetCachedPool, Closing, adminVars
    <3>1. ~raced[c] /\ \A a \in Admin : ~Closing(a)
      BY <1>10 DEF SetCachedPool, RacesTransaction, Closing
    <3>2. built[c] \in Pool /\ pool' = built[c]
      BY <1>10 DEF SetCachedPool, TypeOK
    <3>3. built[c].entries = EntriesOf(db) /\ built[c].patterns = PatternsOf(db)
      BY <1>10, <3>1 DEF SetCachedPool, ReaderInv
    <3> QED BY <3>1, <3>2, <3>3 DEF Pool, PoolOf
  <2> QED BY <2>1, <2>2
<1>11. ASSUME NEW c \in Client, AbandonRebuild(c) PROVE (ReaderInv /\ CacheInv)'
  <2>1. ReaderInv'
    BY <1>11 DEF AbandonRebuild, TypeOK, ReaderInv
  <2>2. CacheInv'
    BY <1>11 DEF AbandonRebuild, CacheInv, Closing, adminVars
  <2> QED BY <2>1, <2>2
<1>12. CASE ExpirePool
  BY <1>12 DEF ExpirePool, clientVars, ReaderInv, CacheInv
<1>13. CASE UNCHANGED vars
  BY <1>13 DEF vars, ReaderInv, CacheInv, Closing
<1> QED BY <1>1, <1>2, <1>3, <1>4, <1>5, <1>6, <1>7, <1>8, <1>9, <1>10, <1>11, <1>12, <1>13
        DEF Next, AdminStep, RebuildStep

\* A cached pool that differs from the committed tables was stored by a rebuild
\* that raced a transaction.
THEOREM StaleOnlyFromRaceHolds == Spec => []StaleOnlyFromRace
<1>1. IInv => StaleOnlyFromRace
  BY DEF IInv, CacheInv, StaleOnlyFromRace, Fresh
<1> QED BY <1>1, InitIInv, NextIInv, PTL DEF Spec

-----------------------------------------------------------------------------
\* The invalidation protocol.

\* A request that goes through Redis is one that bumps, and an idle client has
\* no race behind it.
StepInv ==
    /\ \A a \in Admin : apc[a] \in {"incr", "del"} => Bumps(req[a])
    /\ \A c \in Client : cpc[c] = "idle" => ~raced[c]

LEMMA StepInvariance == IInv /\ StepInv /\ [Next]_vars => StepInv'
<1> SUFFICES ASSUME IInv, StepInv, [Next]_vars PROVE StepInv'
  OBVIOUS
<1> USE DEF StepInv
<1>0. TypeOK
  BY DEF IInv, TInv
<1>1. ASSUME NEW a \in Admin, NEW r \in Request, Load(a, r) PROVE StepInv'
  BY <1>0, <1>1 DEF Load, TypeOK, clientVars
<1>2. ASSUME NEW a \in Admin, Flush(a) PROVE StepInv'
  BY <1>0, <1>2 DEF Flush, TypeOK, clientVars
<1>3. ASSUME NEW a \in Admin, IncrVersion(a) \/ DelPool(a) PROVE StepInv'
  BY <1>0, <1>3 DEF IncrVersion, DelPool, TypeOK, clientVars
<1>4. ASSUME NEW a \in Admin, Commit(a) PROVE StepInv'
  BY <1>0, <1>4 DEF Commit, TypeOK
<1>5. ASSUME NEW a \in Admin, RollBack(a) PROVE StepInv'
  BY <1>0, <1>5 DEF RollBack, TypeOK, clientVars
<1>6. ASSUME NEW c \in Client, MissPool(c) \/ RebuildStep(c) PROVE StepInv'
  BY <1>0, <1>6 DEF MissPool, RebuildStep, ReadSubs, ReadRules, SetCachedPool,
     AbandonRebuild, TypeOK, adminVars
<1>7. CASE ExpirePool
  BY <1>7 DEF ExpirePool, adminVars, clientVars
<1>8. CASE UNCHANGED vars
  BY <1>8 DEF vars
<1> QED BY <1>1, <1>2, <1>3, <1>4, <1>5, <1>6, <1>7, <1>8 DEF Next, AdminStep

LEMMA ProtocolInit == Init => Protocol!Init
<1> SUFFICES ASSUME Init PROVE Protocol!Init
  OBVIOUS
<1>1. PoolOf(db) \in Pool
  BY PoolOfTyped DEF Init, PoolOf, Pool
<1>2. Announced = {}
  BY DEF Init, Announced
<1>3. Readers = [c \in Client |-> "idle"]
  BY DEF Init, Readers
<1> QED BY <1>1, <1>2, <1>3 DEF Init, Protocol!Init

\* A step of an admin request other than DEL and commit changes nothing that
\* the protocol sees, unless it ends a request that has deleted the pool.
LEMMA AdminMaps ==
    ASSUME IInv, StepInv, NEW a \in Admin, (\E r \in Request : Load(a, r)) \/ AdminStep(a)
    PROVE  [Protocol!Next]_Protocol!vars
<1> USE DEF Protocol!Next, Protocol!vars
<1>0. TypeOK
  BY DEF IInv, TInv
<1>1. ASSUME NEW r \in Request, Load(a, r) PROVE [Protocol!Next]_Protocol!vars
  <2>1. Announced' = Announced
    BY <1>0, <1>1 DEF Load, Announced, TypeOK
  <2>2. Readers' = Readers
    BY <1>1 DEF Load, Readers, clientVars
  <2> QED BY <1>1, <2>1, <2>2 DEF Load
<1>2. CASE Flush(a)
  <2>1. Announced' = Announced
    <3>1. CASE Bumps(req[a])
      BY <1>0, <1>2, <3>1 DEF Flush, Announced, TypeOK
    <3>2. CASE ~Bumps(req[a])
      BY <1>0, <1>2, <3>2 DEF Flush, Announced, TypeOK
    <3> QED BY <3>1, <3>2
  <2>2. Readers' = Readers
    BY <1>2 DEF Flush, Readers, clientVars
  <2> QED BY <1>2, <2>1, <2>2 DEF Flush
<1>3. CASE IncrVersion(a)
  <2>1. Announced' = Announced
    BY <1>0, <1>3 DEF IncrVersion, Announced, TypeOK
  <2>2. Readers' = Readers
    BY <1>3 DEF IncrVersion, Readers, clientVars
  <2> QED BY <1>3, <2>1, <2>2 DEF IncrVersion
<1>4. CASE DelPool(a)
  <2>1. Bumps(req[a]) /\ a \notin Announced
    BY <1>4 DEF DelPool, StepInv, Announced
  <2>2. Announced' = Announced \cup {a}
    BY <1>0, <1>4, <2>1 DEF DelPool, Announced, TypeOK
  <2>3. Readers' = Readers
    BY <1>4 DEF DelPool, Readers, clientVars
  <2>4. Protocol!Announce(a)
    BY <1>4, <2>1, <2>2, <2>3 DEF DelPool, Protocol!Announce
  <2> QED BY <2>4
<1>5. CASE Commit(a) /\ Bumps(req[a])
  <2>1. a \in Announced
    BY <1>5 DEF Commit, Announced
  <2>2. Announced' = Announced \ {a}
    BY <1>0, <1>5 DEF Commit, Announced, TypeOK
  <2>3. Readers' = [c \in Client |-> IF Readers[c] = "idle" THEN "idle" ELSE "overtaken"]
    BY <1>5 DEF Commit, Readers
  <2>4. PoolOf(db)' \in Pool
    <3>1. TypeOK'
      BY <1>5, NextTInv DEF IInv, TInv, Next, AdminStep
    <3> QED BY <3>1, PoolOfTyped DEF TypeOK, PoolOf, Pool
  <2>5. Protocol!Change(a)
    BY <1>5, <2>1, <2>2, <2>3, <2>4 DEF Commit, Protocol!Change
  <2> QED BY <2>5
<1>6. CASE Commit(a) /\ ~Bumps(req[a])
  <2>1. Announced' = Announced
    BY <1>0, <1>6 DEF Commit, Announced, TypeOK
  <2>2. Readers' = Readers
    BY <1>6 DEF Commit, Readers
  <2>3. PoolOf(db') = PoolOf(db)
    <3>1. db \in Database /\ req[a] \in Request /\ db' = Effect(req[a], db)
      BY <1>0, <1>6 DEF Commit, TypeOK
    <3> QED BY <1>6, <3>1, GroupCreationKeepsPool DEF PoolOf
  <2> QED BY <1>6, <2>1, <2>2, <2>3 DEF Commit
<1>7. CASE RollBack(a)
  <2>1. Announced' = Announced \ {a}
    BY <1>0, <1>7 DEF RollBack, Announced, TypeOK
  <2>2. Readers' = Readers
    BY <1>7 DEF RollBack, Readers, clientVars
  <2>3. CASE a \in Announced
    <3>1. Protocol!Withdraw(a)
      BY <1>7, <2>1, <2>2, <2>3 DEF RollBack, Protocol!Withdraw
    <3> QED BY <3>1
  <2>4. CASE a \notin Announced
    BY <1>7, <2>1, <2>2, <2>4 DEF RollBack
  <2> QED BY <2>3, <2>4
<1> QED BY <1>1, <1>2, <1>3, <1>4, <1>5, <1>6, <1>7 DEF AdminStep

\* A rebuild is one reader; its two reads are not seen.
LEMMA RebuildMaps ==
    ASSUME IInv, StepInv, NEW c \in Client, MissPool(c) \/ RebuildStep(c)
    PROVE  [Protocol!Next]_Protocol!vars
<1> USE DEF Protocol!Next, Protocol!vars
<1>0. TypeOK
  BY DEF IInv, TInv
<1>1. Announced' = Announced
  BY <1>0 DEF MissPool, RebuildStep, ReadSubs, ReadRules, SetCachedPool,
     AbandonRebuild, adminVars, Announced
<1>2. CASE MissPool(c)
  <2>1. Readers[c] = "idle" /\ Readers' = [Readers EXCEPT ![c] = "clean"]
    BY <1>0, <1>2 DEF MissPool, Readers, TypeOK, StepInv
  <2>2. Protocol!Start(c)
    BY <1>1, <1>2, <2>1 DEF MissPool, Protocol!Start
  <2> QED BY <2>2
<1>3. CASE ReadSubs(c) \/ ReadRules(c)
  <2>1. Readers' = Readers
    BY <1>0, <1>3 DEF ReadSubs, ReadRules, Readers, TypeOK
  <2> QED BY <1>1, <1>3, <2>1 DEF ReadSubs, ReadRules
<1>4. CASE SetCachedPool(c)
  <2>1. Readers[c] # "idle" /\ Readers' = [Readers EXCEPT ![c] = "idle"]
    BY <1>0, <1>4 DEF SetCachedPool, Readers, TypeOK
  <2>2. pool' \in Pool
    BY <1>0, <1>4 DEF SetCachedPool, TypeOK
  <2>3. poolRaced' = (Readers[c] = "overtaken" \/ Announced # {})
    <3>1. (Readers[c] = "overtaken") = raced[c]
      BY <1>0, <1>4 DEF SetCachedPool, Readers, TypeOK
    <3>2. (Announced # {}) = (\E a \in Admin : apc[a] = "commit" /\ Bumps(req[a]))
      BY DEF Announced
    <3> QED BY <1>4, <3>1, <3>2 DEF SetCachedPool, RacesTransaction
  <2>4. ~poolRaced' => pool' = PoolOf(db)
    <3> SUFFICES ASSUME ~poolRaced' PROVE pool' = PoolOf(db)
      OBVIOUS
    <3>1. ~raced[c]
      BY <1>4 DEF SetCachedPool, RacesTransaction
    <3>2. built[c] \in Pool /\ pool' = built[c]
      BY <1>0, <1>4 DEF SetCachedPool, TypeOK
    <3>3. built[c].entries = EntriesOf(db) /\ built[c].patterns = PatternsOf(db)
      BY <1>4, <3>1 DEF SetCachedPool, IInv, ReaderInv
    <3> QED BY <3>2, <3>3 DEF Pool, PoolOf
  <2>5. Protocol!Store(c)
    BY <1>1, <1>4, <2>1, <2>2, <2>3, <2>4 DEF SetCachedPool, Protocol!Store
  <2> QED BY <2>5
<1>5. CASE AbandonRebuild(c)
  <2>1. Readers[c] # "idle" /\ Readers' = [Readers EXCEPT ![c] = "idle"]
    BY <1>0, <1>5 DEF AbandonRebuild, Readers, TypeOK
  <2>2. Protocol!GiveUp(c)
    BY <1>1, <1>5, <2>1 DEF AbandonRebuild, Protocol!GiveUp
  <2> QED BY <2>2
<1> QED BY <1>2, <1>3, <1>4, <1>5 DEF RebuildStep

LEMMA ProtocolStep ==
    IInv /\ StepInv /\ [Next]_vars => [Protocol!Next]_Protocol!vars
<1> SUFFICES ASSUME IInv, StepInv, [Next]_vars PROVE [Protocol!Next]_Protocol!vars
  OBVIOUS
<1>1. CASE ExpirePool
  <2>1. Announced' = Announced /\ Readers' = Readers
    BY <1>1 DEF ExpirePool, Announced, Readers, adminVars, clientVars
  <2>2. Protocol!Drop
    BY <1>1, <2>1 DEF ExpirePool, Protocol!Drop
  <2> QED BY <2>2 DEF Protocol!Next
<1>2. CASE UNCHANGED vars
  BY <1>2 DEF vars, Announced, Readers, Protocol!vars
<1> QED BY <1>1, <1>2, AdminMaps, RebuildMaps DEF Next

\* PoolCache implements the protocol: with what its admin requests do to the
\* tables and to Redis, a change of the pool is always announced, and a rebuild
\* that no announced change overlaps stores the current pool.
THEOREM FollowsProtocolHolds == Spec => FollowsProtocol
<1>1. Init => StepInv
  BY DEF Init, StepInv
<1> QED BY <1>1, InitIInv, NextIInv, StepInvariance, ProtocolInit, ProtocolStep, PTL
        DEF Spec, FollowsProtocol, Protocol!Spec

-----------------------------------------------------------------------------
\* What the protocol alone is worth.  While a change is announced, what is
\* cached is in doubt already; and nobody caches a value beyond doubt that is
\* not the current one.
ProtocolInv ==
    pool # NoPool /\ ~poolRaced => pool = PoolOf(db) /\ Announced = {}

\* Announcing a change before it is made is enough: of the tables, the locks and
\* the order of the statements in the handlers nothing is used but that they
\* follow the protocol, and the cached pool is the current one or in doubt.
THEOREM CoherentHolds == FollowsProtocol => []Protocol!Coherent
<1> USE DEF ProtocolInv
<1>1. Protocol!Init => ProtocolInv
  BY DEF Protocol!Init
<1>2. ProtocolInv /\ [Protocol!Next]_Protocol!vars => ProtocolInv'
  <2> SUFFICES ASSUME ProtocolInv, [Protocol!Next]_Protocol!vars PROVE ProtocolInv'
    OBVIOUS
  <2>1. ASSUME NEW w \in Admin, Protocol!Announce(w) PROVE ProtocolInv'
    BY <2>1 DEF Protocol!Announce
  <2>2. ASSUME NEW w \in Admin, Protocol!Change(w) PROVE ProtocolInv'
    BY <2>2 DEF Protocol!Change
  <2>3. ASSUME NEW w \in Admin, Protocol!Withdraw(w) PROVE ProtocolInv'
    BY <2>3 DEF Protocol!Withdraw
  <2>4. ASSUME NEW r \in Client, Protocol!Store(r) PROVE ProtocolInv'
    BY <2>4 DEF Protocol!Store
  <2>5. ASSUME NEW r \in Client, Protocol!Start(r) \/ Protocol!GiveUp(r)
        PROVE  ProtocolInv'
    BY <2>5 DEF Protocol!Start, Protocol!GiveUp
  <2>6. CASE Protocol!Drop
    BY <2>6 DEF Protocol!Drop
  <2>7. CASE UNCHANGED Protocol!vars
    BY <2>7 DEF Protocol!vars
  <2> QED BY <2>1, <2>2, <2>3, <2>4, <2>5, <2>6, <2>7 DEF Protocol!Next
<1>3. ProtocolInv => Protocol!Coherent
  BY DEF Protocol!Coherent
<1> QED BY <1>1, <1>2, <1>3, PTL DEF FollowsProtocol, Protocol!Spec

==============================================================================
