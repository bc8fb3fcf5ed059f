------------------------ MODULE ProviderRefreshProofs ------------------------
(***************************************************************************)
(* The safety properties of ProviderRefresh for every number of requests,  *)
(* every set of answers and patches and every number of User-Agents.       *)
(*                                                                         *)
(* The argument is about who may commit.  From its UPDATE to its commit a  *)
(* request holds the row's lock, so nobody else commits in between; before *)
(* that, missed records every column in which the row has left the one the *)
(* request loaded.                                                         *)
(***************************************************************************)
EXTENDS ProviderRefresh, TLAPS

Active(r) == pc[r] \in {"fetch", "flush", "commit"}

\* An UPDATE or DELETE is committed under the lock, and the row of an UPDATE
\* is still there.
LockInv ==
    \A r \in Req :
        pc[r] = "commit" /\ kind[r] # "create"
        => lock = r /\ (kind[r] # "delete" => db # NoRow)

\* There is at most one create, which works on a fresh row nobody else sees.
CreateInv ==
    /\ ~born => db = NoRow /\ \A r \in Req : pc[r] = Idle
    /\ \A r \in Req : kind[r] = "create" /\ Active(r) =>
          /\ db = NoRow /\ born /\ row[r] = FreshRow
          /\ \A q \in Req : kind[q] = "create" /\ Active(q) => q = r

\* A request that has not written yet knows the columns nobody has changed.
MissedInv ==
    \A r \in Req :
        kind[r] \in {"refresh", "update"} /\ Active(r) /\ db # NoRow
        => \A c \in Columns \ missed[r] : db[c] = row[r][c]

\* Refreshes do not assign the URL, patches no list.
NewInv ==
    \A r \in Req :
        /\ pc[r] = Idle => DOMAIN new[r] = {} /\ kind[r] = Null
        /\ pc[r] # Idle => kind[r] \in Kinds
        /\ pc[r] = "fetch" => kind[r] \in {"create", "refresh"}
        /\ kind[r] \in {"create", "refresh"} => "url" \notin DOMAIN new[r]
        /\ kind[r] = "update" => "outbounds" \notin DOMAIN new[r]

IInv ==
    TypeOK /\ LockInv /\ CreateInv /\ MissedInv /\ NewInv
    /\ RowIsSerial /\ FetchedFromItsUrl

-----------------------------------------------------------------------------
\* Rows, and what is assigned to them.

LEMMA FreshRowTyped == FreshRow \in Row
BY ConstantsAssumption DEF FreshRow, Row

LEMMA NoRowIsNone == NoRow \notin Row
BY ConstantsAssumption

\* Overwriting some columns of a row with values for them gives a row.
LEMMA MergeTyped ==
    ASSUME NEW old \in Row, NEW upd, NEW cols \in SUBSET Columns,
           \A c \in cols : upd[c] \in Value[c]
    PROVE  Merge(old, upd, cols) \in Row
BY DEF Merge, Row, Columns, Value

\* What each column holds after a merge.
LEMMA MergeColumns ==
    ASSUME NEW old, NEW upd, NEW cols, NEW c \in Columns
    PROVE  /\ c \in cols => Merge(old, upd, cols)[c] = upd[c]
           /\ c \notin cols => Merge(old, upd, cols)[c] = old[c]
BY DEF Merge

\* An answer that can be stored assigns values of their columns' types, and
\* never a URL.
LEMMA AssignedTyped ==
    ASSUME NEW r \in Req, NEW a \in Answers, a.status = "200",
           a.header # Null => a.header.expire # Absurd
    PROVE  /\ DOMAIN Assigned(r, a) \subseteq Columns \ {"url"}
           /\ \A c \in DOMAIN Assigned(r, a) : Assigned(r, a)[c] \in Value[c]
<1>1. a.list \in List /\ a.header \in Header \cup {Null}
  BY ConstantsAssumption DEF Answer
<1>2. CASE a.header = Null
  BY <1>1, <1>2 DEF Assigned, Columns, Value
<1>3. CASE a.header # Null
  <2> DEFINE meta == FromHeader(a.header)
  <2>1. a.header \in Header
    BY <1>1, <1>3
  <2>2. meta.used \in Nat /\ meta.total \in Nat /\ meta.expire \in Nat
    BY <2>1, <1>3 DEF FromHeader, Header
  <2> QED BY <1>1, <1>3, <2>2 DEF Assigned, Columns, Value
<1> QED BY <1>2, <1>3

-----------------------------------------------------------------------------
\* The shape of a step.

\* Only a commit changes the row and what the history says of it.
LEMMA OnlyCommitsWrite ==
    ASSUME [Next]_vars, ~\E r \in Req : Commit(r)
    PROVE  UNCHANGED <<db, history>>
<1> USE DEF At, Rollback, FetchFails, GetSub, vars, history
<1>1. CASE UNCHANGED vars
  BY <1>1
<1>2. ASSUME NEW r \in Req,
             \/ CreateProviderSub(r) \/ RefreshProviderSub(r)
             \/ UpdateProviderSub(r) \/ DeleteProviderSub(r)
      PROVE  UNCHANGED <<db, history>>
  BY <1>2 DEF CreateProviderSub, RefreshProviderSub, UpdateProviderSub,
              DeleteProviderSub
<1>3. ASSUME NEW r \in Req,
             \/ FetchUnavailable(r) \/ FetchRefused(r) \/ FetchRaises(r)
             \/ FetchAnswered(r) \/ Flush(r) \/ RedisFails(r) \/ Hang(r)
      PROVE  UNCHANGED <<db, history>>
  BY <1>3 DEF FetchUnavailable, FetchRefused, FetchRaises, FetchAnswered, Flush,
              RedisFails, Hang
<1> QED BY <1>1, <1>2, <1>3 DEF Next

\* What a request does between its SELECT and its commit is its own affair.
LEMMA WorksAlone ==
    ASSUME TypeOK, NEW r \in Req,
           \/ FetchUnavailable(r) \/ FetchRefused(r) \/ FetchRaises(r)
           \/ FetchAnswered(r) \/ Flush(r) \/ RedisFails(r) \/ Hang(r)
    PROVE  /\ UNCHANGED <<db, born, kind, row, history>>
           /\ Active(r) /\ \A q \in Req \ {r} : pc'[q] = pc[q]
<1> USE DEF At, Rollback, FetchFails, Goto, Active, TypeOK
<1>1. CASE FetchUnavailable(r)
  BY <1>1 DEF FetchUnavailable
<1>2. CASE FetchRefused(r)
  BY <1>2 DEF FetchRefused
<1>3. CASE FetchRaises(r)
  BY <1>3 DEF FetchRaises
<1>4. CASE FetchAnswered(r)
  BY <1>4 DEF FetchAnswered
<1>5. CASE Flush(r)
  BY <1>5 DEF Flush
<1>6. CASE RedisFails(r)
  BY <1>6 DEF RedisFails
<1>7. CASE Hang(r)
  BY <1>7 DEF Hang
<1> QED BY <1>1, <1>2, <1>3, <1>4, <1>5, <1>6, <1>7

\* The row that is committed: none by a delete, otherwise the new row of a
\* create or the old one with the changed columns replaced.
LEMMA CommittedRow ==
    ASSUME IInv, NEW r \in Req, Commit(r)
    PROVE  \/ /\ kind[r] = "create" /\ db = NoRow /\ row[r] = FreshRow
              /\ db' = Merge(FreshRow, new[r], DOMAIN new[r]) /\ db' \in Row
              /\ serial' = db' /\ "url" \notin DOMAIN new[r]
           \/ /\ kind[r] \in {"refresh", "update"} /\ db \in Row /\ lock = r
              /\ db' = Merge(db, new[r], Changed(r)) /\ db' \in Row
              /\ serial \in Row /\ serial' \in Row
              /\ serial' = Merge(serial, new[r], DOMAIN new[r])
           \/ kind[r] = "delete" /\ db' = NoRow /\ serial' = NoRow /\ lock = r
<1>1. /\ pc[r] = "commit" /\ kind[r] \in Kinds
      /\ db' = Written(r)
      /\ serial' = IF db' = NoRow THEN NoRow
                   ELSE Merge(IF kind[r] = "create" THEN FreshRow ELSE serial,
                              new[r], DOMAIN new[r])
  BY DEF Commit, At, IInv, NewInv, Idle
<1>2. /\ DOMAIN new[r] \in SUBSET Columns
      /\ \A c \in DOMAIN new[r] : new[r][c] \in Value[c]
      /\ row[r] \in Row /\ db \in Row \cup {NoRow} /\ serial \in Row \cup {NoRow}
  BY DEF IInv, TypeOK
<1>3. CASE kind[r] = "create"
  <2>1. db = NoRow /\ row[r] = FreshRow
    BY <1>1, <1>3 DEF IInv, CreateInv, Active
  <2>2. "url" \notin DOMAIN new[r]
    BY <1>3 DEF IInv, NewInv
  <2>3. db' = Merge(FreshRow, new[r], DOMAIN new[r])
    BY <1>1, <1>3, <2>1 DEF Written
  <2>4. db' \in Row
    BY <1>2, <2>3, MergeTyped, FreshRowTyped
  <2> QED BY <1>1, <1>3, <2>1, <2>2, <2>3, <2>4, NoRowIsNone
<1>4. CASE kind[r] \in {"refresh", "update"}
  <2>1. lock = r /\ db # NoRow
    BY <1>1, <1>4 DEF IInv, LockInv
  <2>2. db \in Row /\ serial \in Row
    BY <1>2, <2>1 DEF IInv, RowIsSerial
  <2>3. db' = Merge(db, new[r], Changed(r))
    BY <1>1, <1>4 DEF Written, UpdateRow
  <2>4. Changed(r) \in SUBSET Columns /\ \A c \in Changed(r) : new[r][c] \in Value[c]
    BY <1>2 DEF Changed
  <2>5. db' \in Row
    BY <2>2, <2>3, <2>4, MergeTyped
  <2>6. serial' = Merge(serial, new[r], DOMAIN new[r])
    BY <1>1, <1>4, <2>5, NoRowIsNone
  <2>7. serial' \in Row
    BY <1>2, <2>2, <2>6, MergeTyped
  <2> QED BY <1>4, <2>1, <2>2, <2>3, <2>5, <2>6, <2>7
<1>5. CASE kind[r] = "delete"
  BY <1>1, <1>5 DEF Written, IInv, LockInv
<1> QED BY <1>1, <1>3, <1>4, <1>5 DEF Kinds

-----------------------------------------------------------------------------
\* Each part of the invariant is preserved by every step.

LEMMA InitIInv == Init => IInv
<1> SUFFICES ASSUME Init PROVE IInv
  OBVIOUS
<1>1. FreshRow \in Row /\ NoRow \notin Row /\ FreshRow.outbounds = Null
  BY FreshRowTyped, NoRowIsNone DEF FreshRow
<1>2. TypeOK
  <2>1. /\ DOMAIN new = Req
        /\ \A r \in Req : DOMAIN new[r] = {}
    BY DEF Init, Nothing
  <2>2. tries \in [Req -> 0..(MaxTries - 1)]
    BY ConstantsAssumption DEF Init
  <2>3. missed \in [Req -> SUBSET Columns] /\ row \in [Req -> Row]
    BY <1>1 DEF Init
  <2>4. /\ pc \in [Req -> {Idle, "fetch", "flush", "commit", "done"}]
        /\ kind \in [Req -> Kinds \cup {Null}]
    BY DEF Init
  <2>5. born \in BOOLEAN /\ moved \in BOOLEAN
    BY DEF Init
  <2> QED BY <1>1, <2>1, <2>2, <2>3, <2>4, <2>5, ConstantsAssumption DEF Init, TypeOK
<1>3. LockInv /\ CreateInv /\ MissedInv /\ NewInv
  BY <1>1 DEF Init, LockInv, CreateInv, MissedInv, NewInv, Active, Nothing, Idle
<1>4. RowIsSerial /\ FetchedFromItsUrl
  BY <1>1 DEF Init, RowIsSerial, FetchedFromItsUrl
<1> QED BY <1>2, <1>3, <1>4 DEF IInv

LEMMA TypeStep ==
    ASSUME IInv, [Next]_vars
    PROVE  TypeOK'
<1> USE DEF At, vars, history, Goto, Rollback, FetchFails, Idle
<1>0. /\ TypeOK /\ Null \notin Req /\ FreshRow \in Row
      /\ {"create", "refresh", "update", "delete"} \subseteq Kinds
  BY ConstantsAssumption, FreshRowTyped DEF IInv, Kinds
<1>1. CASE UNCHANGED vars
  BY <1>0, <1>1 DEF TypeOK
<1>2. ASSUME NEW r \in Req, CreateProviderSub(r) PROVE TypeOK'
  BY <1>0, <1>2 DEF TypeOK, CreateProviderSub
<1>3. ASSUME NEW r \in Req, RefreshProviderSub(r) \/ DeleteProviderSub(r) PROVE TypeOK'
  BY <1>0, <1>3 DEF TypeOK, RefreshProviderSub, DeleteProviderSub, GetSub
<1>4. ASSUME NEW r \in Req, UpdateProviderSub(r) PROVE TypeOK'
  <2>1. PICK body \in Patches :
          /\ GetSub(r, "update",
                    IF \A c \in DOMAIN body : body[c] = db[c] THEN "done" ELSE "flush")
          /\ new' = [new EXCEPT ![r] = body]
    BY <1>4 DEF UpdateProviderSub
  <2>2. DOMAIN body \subseteq Columns /\ \A c \in DOMAIN body : body[c] \in Value[c]
    BY ConstantsAssumption
  <2> QED BY <1>0, <2>1, <2>2 DEF TypeOK, GetSub
<1>5. ASSUME NEW r \in Req, FetchUnavailable(r) PROVE TypeOK'
  BY <1>0, <1>5, ConstantsAssumption DEF TypeOK, FetchUnavailable, NextTry
<1>6. ASSUME NEW r \in Req, FetchRefused(r) \/ FetchRaises(r) \/ RedisFails(r)
      PROVE  TypeOK'
  BY <1>0, <1>6 DEF TypeOK, FetchRefused, FetchRaises, RedisFails
<1>7. ASSUME NEW r \in Req, FetchAnswered(r) PROVE TypeOK'
  <2>1. PICK a \in Answers : /\ a.status = "200"
                             /\ a.header # Null => a.header.expire # Absurd
                             /\ new' = [new EXCEPT ![r] = Assigned(r, a)]
    BY <1>7 DEF FetchAnswered
  <2>2. /\ DOMAIN Assigned(r, a) \subseteq Columns
        /\ \A c \in DOMAIN Assigned(r, a) : Assigned(r, a)[c] \in Value[c]
    BY <2>1, AssignedTyped
  <2> QED BY <1>0, <1>7, <2>1, <2>2 DEF TypeOK, FetchAnswered
<1>8. ASSUME NEW r \in Req, Flush(r) \/ Hang(r) PROVE TypeOK'
  BY <1>0, <1>8 DEF TypeOK, Flush, Hang
<1>9. ASSUME NEW r \in Req, Commit(r) PROVE TypeOK'
  <2>1. db' \in Row \cup {NoRow} /\ serial' \in Row \cup {NoRow}
    BY <1>9, CommittedRow
  <2>2. missed' \in [Req -> SUBSET Columns]
    BY <1>0, <1>9 DEF TypeOK, Commit, Differ
  <2>3. torn' \subseteq Columns
    BY <1>0, <1>9 DEF TypeOK, Commit
  <2>4. source' \in Url
    BY <1>0, <1>9 DEF TypeOK, Commit, Row
  <2>5. lock' \in Req \cup {Null} /\ (lock' # Null => pc'[lock'] = "commit")
    BY <1>0, <1>9 DEF TypeOK, Commit
  <2>6. pc' \in [Req -> {Idle, "fetch", "flush", "commit", "done"}]
    BY <1>0, <1>9 DEF TypeOK, Commit
  <2>7. moved' \in BOOLEAN
    <3>1. moved' = IF "outbounds" \in DOMAIN new[r] \ torn'
                   THEN "url" \in missed[r]
                   ELSE moved \/ "url" \in Differ(db, db')
      BY <1>9 DEF Commit
    <3>2. CASE "outbounds" \in DOMAIN new[r] \ torn'
      <4>1. moved' = ("url" \in missed[r])
        BY <3>1, <3>2, Zenon
      <4>2. ("url" \in missed[r]) \in BOOLEAN
        OBVIOUS
      <4> QED BY <4>1, <4>2, Zenon
    <3>3. CASE "outbounds" \notin DOMAIN new[r] \ torn'
      <4>1. moved' = (moved \/ "url" \in Differ(db, db'))
        BY <3>1, <3>3, Zenon
      <4>2. (moved \/ "url" \in Differ(db, db')) \in BOOLEAN
        OBVIOUS
      <4> QED BY <4>1, <4>2, Zenon
    <3> QED BY <3>2, <3>3
  <2> QED BY <1>0, <1>9, <2>1, <2>2, <2>3, <2>4, <2>5, <2>6, <2>7 DEF TypeOK, Commit
<1> QED BY <1>1, <1>2, <1>3, <1>4, <1>5, <1>6, <1>7, <1>8, <1>9 DEF Next

\* The row's lock has one holder, and only the holder can remove the row.
LEMMA LockStep ==
    ASSUME IInv, [Next]_vars
    PROVE  LockInv'
<1> USE DEF At, vars, history, Goto, Rollback, FetchFails, Idle
<1>0. TypeOK /\ LockInv /\ Null \notin Req
  BY ConstantsAssumption DEF IInv
<1>1. CASE UNCHANGED vars
  BY <1>0, <1>1 DEF LockInv
<1>2. ASSUME NEW r \in Req, CreateProviderSub(r) PROVE LockInv'
  BY <1>0, <1>2 DEF TypeOK, LockInv, CreateProviderSub
<1>3. ASSUME NEW r \in Req,
             RefreshProviderSub(r) \/ UpdateProviderSub(r) \/ DeleteProviderSub(r)
      PROVE  LockInv'
  BY <1>0, <1>3 DEF TypeOK, LockInv, RefreshProviderSub, UpdateProviderSub,
                    DeleteProviderSub, GetSub
<1>4. ASSUME NEW r \in Req, FetchUnavailable(r) \/ FetchRefused(r) PROVE LockInv'
  BY <1>0, <1>4 DEF TypeOK, LockInv, FetchUnavailable, FetchRefused
<1>5. ASSUME NEW r \in Req, FetchRaises(r) \/ FetchAnswered(r) \/ RedisFails(r)
      PROVE  LockInv'
  BY <1>0, <1>5 DEF TypeOK, LockInv, FetchRaises, FetchAnswered, RedisFails
<1>6. ASSUME NEW r \in Req, Flush(r) \/ Hang(r) PROVE LockInv'
  BY <1>0, <1>6 DEF TypeOK, LockInv, Flush, Hang
<1>7. ASSUME NEW r \in Req, Commit(r) PROVE LockInv'
  <2>1. pc' = [pc EXCEPT ![r] = "done"] /\ kind' = kind
        /\ lock' = IF lock = r THEN Null ELSE lock
    BY <1>7 DEF Commit
  <2> SUFFICES ASSUME NEW q \in Req, pc'[q] = "commit", kind[q] # "create"
               PROVE  lock' = q /\ (kind[q] # "delete" => db' # NoRow)
    BY <2>1 DEF LockInv
  <2>2. q # r /\ lock = q
    BY <1>0, <2>1 DEF TypeOK, LockInv
  <2>3. db' \in Row
    BY <1>7, <2>2, CommittedRow
  <2> QED BY <2>1, <2>2, <2>3, NoRowIsNone
<1> QED BY <1>1, <1>2, <1>3, <1>4, <1>5, <1>6, <1>7 DEF Next

\* The create is alone, and nobody sees its row.
LEMMA CreateStep ==
    ASSUME IInv, [Next]_vars
    PROVE  CreateInv'
<1> USE DEF At, Goto, Idle, Active, vars
<1>0. TypeOK /\ CreateInv
  BY DEF IInv
<1>1. CASE UNCHANGED vars
  BY <1>0, <1>1 DEF CreateInv
<1>2. ASSUME NEW r \in Req, CreateProviderSub(r) PROVE CreateInv'
  BY <1>0, <1>2 DEF TypeOK, CreateInv, CreateProviderSub
<1>3. ASSUME NEW r \in Req,
             RefreshProviderSub(r) \/ UpdateProviderSub(r) \/ DeleteProviderSub(r)
      PROVE  CreateInv'
  BY <1>0, <1>3 DEF TypeOK, CreateInv, RefreshProviderSub, UpdateProviderSub,
                    DeleteProviderSub, GetSub
<1>4. ASSUME NEW r \in Req,
             \/ FetchUnavailable(r) \/ FetchRefused(r) \/ FetchRaises(r)
             \/ FetchAnswered(r) \/ Flush(r) \/ RedisFails(r) \/ Hang(r)
      PROVE  CreateInv'
  <2>1. /\ UNCHANGED <<db, born, kind, row, missed>>
        /\ Active(r) /\ \A q \in Req \ {r} : pc'[q] = pc[q]
    BY <1>0, <1>4, WorksAlone DEF history
  <2> QED BY <1>0, <2>1 DEF CreateInv
<1>5. ASSUME NEW r \in Req, Commit(r) PROVE CreateInv'
  <2>1. /\ pc[r] = "commit" /\ pc' = [pc EXCEPT ![r] = "done"]
        /\ UNCHANGED <<born, kind, row>>
    BY <1>5 DEF Commit, At
  <2>2. born
    BY <1>0, <2>1 DEF CreateInv
  <2>3. ASSUME NEW q \in Req, q # r, kind[q] = "create", Active(q)
        PROVE  db' = NoRow
    <3>1. db = NoRow /\ kind[r] # "create"
      BY <1>0, <2>1, <2>3 DEF CreateInv
    <3> QED BY <1>5, <3>1, CommittedRow, NoRowIsNone
  <2> QED BY <1>0, <2>1, <2>2, <2>3 DEF TypeOK, CreateInv
<1> QED BY <1>1, <1>2, <1>3, <1>4, <1>5 DEF Next

\* Whoever commits tells those that are still to write what it has changed;
\* those that have written hold the lock, so nobody else commits.
LEMMA MissedStep ==
    ASSUME IInv, [Next]_vars
    PROVE  MissedInv'
<1> USE DEF At, Goto, Idle, Active
<1>0. TypeOK /\ MissedInv
  BY DEF IInv
<1>1. CASE UNCHANGED vars
  BY <1>0, <1>1 DEF MissedInv, vars, history
<1>2. ASSUME NEW r \in Req, CreateProviderSub(r) PROVE MissedInv'
  BY <1>0, <1>2 DEF TypeOK, MissedInv, CreateProviderSub, history
<1>3. ASSUME NEW r \in Req,
             RefreshProviderSub(r) \/ UpdateProviderSub(r) \/ DeleteProviderSub(r)
      PROVE  MissedInv'
  BY <1>0, <1>3 DEF TypeOK, MissedInv, RefreshProviderSub, UpdateProviderSub,
                    DeleteProviderSub, GetSub, history
<1>4. ASSUME NEW r \in Req,
             \/ FetchUnavailable(r) \/ FetchRefused(r) \/ FetchRaises(r)
             \/ FetchAnswered(r) \/ Flush(r) \/ RedisFails(r) \/ Hang(r)
      PROVE  MissedInv'
  <2>1. /\ UNCHANGED <<db, born, kind, row, missed>>
        /\ Active(r) /\ \A q \in Req \ {r} : pc'[q] = pc[q]
    BY <1>0, <1>4, WorksAlone DEF history
  <2> QED BY <1>0, <2>1 DEF MissedInv
<1>5. ASSUME NEW r \in Req, Commit(r) PROVE MissedInv'
  <2>1. /\ pc[r] = "commit" /\ pc' = [pc EXCEPT ![r] = "done"]
        /\ UNCHANGED <<kind, row>>
        /\ missed' = [q \in Req |-> IF pc[q] \in {"fetch", "flush"}
                                    THEN missed[q] \cup Differ(db, db') ELSE missed[q]]
    BY <1>5 DEF Commit, At
  <2> SUFFICES ASSUME NEW q \in Req, kind[q] \in {"refresh", "update"}, Active(q)',
                      db' # NoRow, NEW c \in Columns, c \notin missed'[q]
               PROVE  db'[c] = row[q][c]
    BY <2>1 DEF MissedInv
  <2>2. q # r /\ pc[q] = pc'[q]
    BY <1>0, <2>1 DEF TypeOK
  <2>3. pc[q] # "commit"
    <3> SUFFICES ASSUME pc[q] = "commit" PROVE FALSE
      OBVIOUS
    <3>1. lock = q /\ db # NoRow
      BY DEF IInv, LockInv
    <3> QED BY <1>5, <2>2, <3>1, CommittedRow
  <2>4. missed'[q] = missed[q] \cup Differ(db, db')
    BY <2>1, <2>2, <2>3
  <2>5. db # NoRow /\ db'[c] = db[c]
    BY <2>4 DEF Differ
  <2> QED BY <1>0, <2>2, <2>4, <2>5 DEF MissedInv
<1> QED BY <1>1, <1>2, <1>3, <1>4, <1>5 DEF Next

LEMMA NewStep ==
    ASSUME IInv, [Next]_vars
    PROVE  NewInv'
<1> USE DEF At, Goto, Rollback, FetchFails, Idle
<1>0. /\ TypeOK /\ NewInv
      /\ {"create", "refresh", "update", "delete"} \subseteq Kinds
  BY DEF IInv, Kinds
<1>1. CASE UNCHANGED vars
  BY <1>0, <1>1 DEF NewInv, vars
<1>2. ASSUME NEW r \in Req, CreateProviderSub(r) PROVE NewInv'
  BY <1>0, <1>2 DEF TypeOK, NewInv, CreateProviderSub
<1>3. ASSUME NEW r \in Req, RefreshProviderSub(r) \/ DeleteProviderSub(r) PROVE NewInv'
  BY <1>0, <1>3 DEF TypeOK, NewInv, RefreshProviderSub, DeleteProviderSub, GetSub
<1>4. ASSUME NEW r \in Req, UpdateProviderSub(r) PROVE NewInv'
  <2>1. PICK body \in Patches :
          /\ GetSub(r, "update",
                    IF \A c \in DOMAIN body : body[c] = db[c] THEN "done" ELSE "flush")
          /\ new' = [new EXCEPT ![r] = body]
    BY <1>4 DEF UpdateProviderSub
  <2>2. "outbounds" \notin DOMAIN body
    BY ConstantsAssumption
  <2> QED BY <1>0, <2>1, <2>2 DEF TypeOK, NewInv, GetSub
<1>5. ASSUME NEW r \in Req, FetchUnavailable(r) \/ FetchRefused(r) PROVE NewInv'
  <2>1. /\ pc[r] = "fetch" /\ kind' = kind /\ new' = new
        /\ \/ pc' = pc
           \/ \E label \in {"commit", "done"} : pc' = [pc EXCEPT ![r] = label]
    BY <1>5 DEF FetchUnavailable, FetchRefused
  <2>2. pc \in [Req -> {Idle, "fetch", "flush", "commit", "done"}] /\ Idle # "fetch"
    BY <1>0 DEF TypeOK
  <2> QED BY <1>0, <2>1, <2>2 DEF NewInv
<1>6. ASSUME NEW r \in Req, FetchRaises(r) \/ RedisFails(r) PROVE NewInv'
  BY <1>0, <1>6 DEF TypeOK, NewInv, FetchRaises, RedisFails
<1>7. ASSUME NEW r \in Req, FetchAnswered(r) PROVE NewInv'
  <2>1. PICK a \in Answers : /\ a.status = "200"
                             /\ a.header # Null => a.header.expire # Absurd
                             /\ new' = [new EXCEPT ![r] = Assigned(r, a)]
    BY <1>7 DEF FetchAnswered
  <2>2. "url" \notin DOMAIN Assigned(r, a)
    BY <2>1, AssignedTyped
  <2> QED BY <1>0, <1>7, <2>1, <2>2 DEF TypeOK, NewInv, FetchAnswered
<1>8. ASSUME NEW r \in Req, Flush(r) \/ Hang(r) PROVE NewInv'
  BY <1>0, <1>8 DEF TypeOK, NewInv, Flush, Hang
<1>9. ASSUME NEW r \in Req, Commit(r) PROVE NewInv'
  BY <1>0, <1>9 DEF TypeOK, NewInv, Commit
<1> QED BY <1>1, <1>2, <1>3, <1>4, <1>5, <1>6, <1>7, <1>8, <1>9 DEF Next

\* A column outside torn is what it would be had the requests run in turn.
LEMMA SerialStep ==
    ASSUME IInv, [Next]_vars
    PROVE  RowIsSerial'
<1>0. RowIsSerial
  BY DEF IInv
<1>1. CASE ~\E r \in Req : Commit(r)
  BY <1>0, <1>1, OnlyCommitsWrite DEF RowIsSerial, history
<1>2. ASSUME NEW r \in Req, Commit(r) PROVE RowIsSerial'
  <2>1. /\ pc[r] = "commit"
        /\ torn' = (torn \ DOMAIN new[r])
                   \cup ((DOMAIN new[r] \ Changed(r)) \cap missed[r])
    BY <1>2 DEF Commit, At
  <2>2. CASE kind[r] \in {"create", "delete"}
    BY <1>2, <2>2, CommittedRow, NoRowIsNone DEF RowIsSerial
  <2>3. CASE kind[r] \in {"refresh", "update"}
    <3>1. /\ db \in Row /\ serial \in Row /\ db' \in Row /\ serial' \in Row
          /\ db' = Merge(db, new[r], Changed(r))
          /\ serial' = Merge(serial, new[r], DOMAIN new[r])
      BY <1>2, <2>3, CommittedRow
    <3>2. ASSUME NEW c \in Columns, c \notin torn'
          PROVE  db'[c] = serial'[c]
      <4>1. CASE c \notin DOMAIN new[r]
        <5>1. db[c] = serial[c]
          BY <1>0, <2>1, <3>1, <3>2, <4>1, NoRowIsNone DEF RowIsSerial
        <5> QED BY <3>1, <4>1, <5>1, MergeColumns DEF Changed
      <4>2. CASE c \in Changed(r)
        BY <3>1, <4>2, MergeColumns DEF Changed
      <4>3. CASE c \in DOMAIN new[r] \ Changed(r)
        <5>1. c \notin missed[r]
          BY <2>1, <3>2, <4>3
        <5>2. db[c] = row[r][c]
          BY <2>1, <2>3, <3>1, <5>1, NoRowIsNone DEF IInv, MissedInv, Active
        <5>3. row[r][c] = new[r][c]
          BY <4>3 DEF Changed
        <5> QED BY <3>1, <4>3, <5>2, <5>3, MergeColumns
      <4> QED BY <4>1, <4>2, <4>3
    <3> QED BY <3>1, <3>2, NoRowIsNone DEF RowIsSerial
  <2> QED BY <1>2, <2>2, <2>3, CommittedRow
<1> QED BY <1>1, <1>2

\* The list and the URL change together or moved says so.
LEMMA ListStep ==
    ASSUME IInv, [Next]_vars
    PROVE  FetchedFromItsUrl'
<1>0. TypeOK /\ FetchedFromItsUrl /\ "url" \in Columns /\ "outbounds" \in Columns
  BY DEF IInv, Columns
<1>1. CASE ~\E r \in Req : Commit(r)
  BY <1>0, <1>1, OnlyCommitsWrite DEF FetchedFromItsUrl, history
<1>2. ASSUME NEW r \in Req, Commit(r) PROVE FetchedFromItsUrl'
  <2> DEFINE listed == "outbounds" \in DOMAIN new[r] \ torn'
  <2>1. /\ pc[r] = "commit"
        /\ torn' = (torn \ DOMAIN new[r])
                   \cup ((DOMAIN new[r] \ Changed(r)) \cap missed[r])
        /\ source' = IF listed /\ db'.outbounds = new[r].outbounds
                     THEN row[r].url ELSE source
        /\ moved' = IF listed THEN "url" \in missed[r]
                    ELSE moved \/ "url" \in Differ(db, db')
    BY <1>2 DEF Commit, At
  <2>2. "outbounds" \in DOMAIN new[r] => new[r].outbounds # Null
    BY <1>0, ConstantsAssumption DEF TypeOK, Value
  <2> SUFFICES ASSUME db' # NoRow, ~moved'
               PROVE  db'.outbounds = Null \/ source' = db'.url
    BY DEF FetchedFromItsUrl
  <2> HIDE DEF listed
  <2>3. CASE kind[r] = "create"
    <3>1. /\ row[r] = FreshRow /\ "url" \notin DOMAIN new[r]
          /\ db' = Merge(FreshRow, new[r], DOMAIN new[r])
      BY <1>2, <2>3, CommittedRow
    <3>2. db'.url = row[r].url /\ FreshRow.outbounds = Null
      BY <1>0, <3>1, MergeColumns DEF FreshRow
    <3>3. CASE "outbounds" \notin DOMAIN new[r]
      BY <1>0, <3>1, <3>2, <3>3, MergeColumns
    <3>4. CASE "outbounds" \in DOMAIN new[r]
      <4>1. "outbounds" \in Changed(r)
        BY <2>2, <3>1, <3>2, <3>4 DEF Changed
      <4>2. listed
        BY <2>1, <3>4, <4>1 DEF listed
      <4>3. db'.outbounds = new[r].outbounds
        BY <1>0, <3>1, <3>4, MergeColumns
      <4> QED BY <2>1, <3>2, <4>2, <4>3
    <3> QED BY <3>3, <3>4
  <2>4. CASE kind[r] \in {"refresh", "update"}
    <3>1. /\ db # NoRow /\ db' = Merge(db, new[r], Changed(r))
          /\ Changed(r) \subseteq DOMAIN new[r]
      BY <1>2, <2>4, CommittedRow, NoRowIsNone DEF Changed
    <3>2. ASSUME NEW c \in Columns, c \notin missed[r]
          PROVE  db[c] = row[r][c]
      BY <2>1, <2>4, <3>1, <3>2 DEF IInv, MissedInv, Active
    <3>3. CASE listed
      <4>1. "outbounds" \in DOMAIN new[r] /\ kind[r] = "refresh"
        BY <2>4, <3>3 DEF listed, IInv, NewInv
      <4>2. "url" \notin DOMAIN new[r]
        BY <4>1 DEF IInv, NewInv
      <4>3. db'.url = db.url
        BY <1>0, <3>1, <4>2, MergeColumns
      <4>4. db.url = row[r].url
        BY <1>0, <2>1, <3>2, <3>3
      <4>5. db'.outbounds = new[r].outbounds
        <5>1. CASE "outbounds" \in Changed(r)
          BY <1>0, <3>1, <5>1, MergeColumns
        <5>2. CASE "outbounds" \notin Changed(r)
          <6>1. db.outbounds = row[r].outbounds
            BY <1>0, <2>1, <3>2, <3>3, <4>1, <5>2 DEF listed
          <6>2. row[r].outbounds = new[r].outbounds
            BY <4>1, <5>2 DEF Changed
          <6> QED BY <1>0, <3>1, <5>2, <6>1, <6>2, MergeColumns
        <5> QED BY <5>1, <5>2
      <4> QED BY <2>1, <3>3, <4>3, <4>4, <4>5
    <3>4. CASE ~listed
      <4>1. source' = source /\ ~moved /\ "url" \notin Differ(db, db')
        BY <2>1, <3>4
      <4>2. db'.url = db.url
        BY <1>0, <3>1, <4>1 DEF Differ
      <4>3. "outbounds" \notin Changed(r)
        BY <2>1, <3>1, <3>4 DEF listed
      <4>4. db'.outbounds = db.outbounds
        BY <1>0, <3>1, <4>3, MergeColumns
      <4> QED BY <1>0, <3>1, <4>1, <4>2, <4>4 DEF FetchedFromItsUrl
    <3> QED BY <3>3, <3>4
  <2>5. kind[r] # "delete"
    BY <1>2, CommittedRow
  <2> QED BY <1>2, <2>3, <2>4, <2>5, CommittedRow
<1> QED BY <1>1, <1>2

-----------------------------------------------------------------------------
\* The theorems.

LEMMA Invariance == Spec => []IInv
<1>1. IInv /\ [Next]_vars => IInv'
  BY TypeStep, LockStep, CreateStep, MissedStep, NewStep, SerialStep, ListStep
     DEF IInv
<1> QED BY InitIInv, <1>1, PTL DEF Spec

\* Type correctness: every column of the row keeps its type, whatever the
\* answers and patches, and only a request that has written holds the row's
\* lock (get_db commits or rolls back).
THEOREM TypeCorrect == Spec => []TypeOK
<1>1. IInv => TypeOK
  BY DEF IInv
<1> QED BY Invariance, <1>1, PTL

\* However many requests overlap, the row differs from the outcome of a serial
\* run only in columns that some request found unchanged against the stale row
\* it had loaded (refresh_provider_sub, update_provider_sub).
THEOREM RowIsSerialHolds == Spec => []RowIsSerial
<1>1. IInv => RowIsSerial
  BY DEF IInv
<1> QED BY Invariance, <1>1, PTL

\* The list that build_node_pool reads was fetched from the URL the row shows,
\* unless the URL has been edited since the refresh read it.
THEOREM FetchedFromItsUrlHolds == Spec => []FetchedFromItsUrl
<1>1. IInv => FetchedFromItsUrl
  BY DEF IInv
<1> QED BY Invariance, <1>1, PTL

=============================================================================
