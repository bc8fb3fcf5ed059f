-------------------------- MODULE ProviderRefresh --------------------------
(***************************************************************************)
(* One provider subscription while admin requests create, refresh, edit    *)
(* and delete it at the same time.                                         *)
(*                                                                         *)
(* A refresh reads the row, then asks the provider with up to MaxTries     *)
(* User-Agents, and only then writes.  FETCH_TIMEOUT bounds each connect   *)
(* and each read of a try and not the try as a whole, and Postgres and     *)
(* Redis are called without a timeout, so any call may hang.  No lock is   *)
(* held during the fetch, and the write is computed against the row as it  *)
(* was read: an UPDATE names the columns whose new value differs from the  *)
(* value loaded, so that a column that did not change in this request is   *)
(* not written even if another request has changed it since.  From the     *)
(* UPDATE to the commit Postgres holds the row's lock.                     *)
(*                                                                         *)
(* PoolCache models what the same requests do to the pool.  Parsing an     *)
(* answer is SubscriptionParser's; here an answer gives a list.            *)
(***************************************************************************)
EXTENDS Integers, FiniteSets

CONSTANTS
    Req,        \* concurrent admin requests
    Url,        \* subscription URLs; FirstUrl is that of the row at creation
    FirstUrl,
    List,       \* lists of outbounds an answer may give
    Answers,    \* what the provider may answer to one try
    Patches,    \* bodies of PATCH: functions from some columns to values
    MaxTries,   \* Len(_RETRY_UAS)
    NoRow, Null,
    Absurd      \* an expiry beyond what a datetime can hold

VARIABLES
    db,         \* the committed row
    lock,       \* the request whose UPDATE or DELETE is not yet committed
    born,       \* the id has been handed out
    pc, kind,   \* each request: next step, and which handler it is
    row,        \* the row as the request loaded it
    new,        \* the columns it has assigned, and their values
    tries,      \* User-Agents already tried
    stuck,      \* requests whose call to the provider or a service never ends
    missed,     \* history: columns others have committed since the load
    serial,     \* history: the row had every request run alone, in commit order
    torn,       \* history: columns left to a request that ran in between
    source,     \* history: the URL that the stored list came from
    moved       \* history: the URL was edited since the list was asked for

history == <<missed, serial, torn, source, moved>>

vars == <<db, lock, born, pc, kind, row, new, tries, stuck, history>>

Columns == {"url", "outbounds", "used", "total", "expires", "fetched"}

Kinds == {"create", "refresh", "update", "delete"}

Row == [url: Url, outbounds: List \cup {Null}, used: Nat \cup {Null},
        total: Nat \cup {Null}, expires: Nat \cup {Null}, fetched: Req \cup {Null}]

\* What may be written to each column; last_fetched_at is who fetched last.
Value == [url |-> Url, outbounds |-> List, used |-> Nat, total |-> Nat,
          expires |-> Nat, fetched |-> Req]

\* The Subscription-UserInfo header: absent, or any of its fields; an expiry
\* may be Absurd.
Header == [used: Nat \cup {Null}, total: Nat \cup {Null},
           expire: Nat \cup {Null, Absurd}]

Answer == [status: {"5xx", "4xx", "network error", "other exception"}]
          \cup [status: {"200"}, list: List, header: Header \cup {Null}]

ASSUME ConstantsAssumption ==
    /\ FirstUrl \in Url /\ MaxTries \in Nat \ {0} /\ NoRow \notin Row
    /\ Null \notin Nat \cup Url \cup List \cup Req \cup {Absurd}
    /\ Absurd \notin Nat
    /\ \A a \in Answers : a \in Answer
    /\ \A p \in Patches : /\ DOMAIN p \subseteq Columns \ {"outbounds", "fetched"}
                          /\ \A c \in DOMAIN p : p[c] \in Value[c]

FreshRow == [url |-> FirstUrl, outbounds |-> Null, used |-> Null, total |-> Null,
             expires |-> Null, fetched |-> Null]

Nothing == [c \in {} |-> Null]

Idle == "idle"

-----------------------------------------------------------------------------
\* What an answer and the ORM make of a request.

\* SubscriptionMeta.from_header: a field that is missing or not a number is 0.
FromHeader(h) == [f \in DOMAIN h |-> IF h[f] = Null THEN 0 ELSE h[f]]

\* The assignments of refresh_provider_sub: limits only if they are reported.
Assigned(r, a) ==
    LET meta == IF a.header = Null THEN Nothing ELSE FromHeader(a.header)
        cols == {"outbounds", "fetched"}
                \cup (IF a.header = Null THEN {} ELSE {"used"})
                \cup {c \in {"total"} : a.header # Null /\ meta.total # 0}
                \cup {c \in {"expires"} : a.header # Null /\ meta.expire # 0}
    IN  [c \in cols |->
            CASE c = "outbounds" -> a.list
              [] c = "fetched" -> r
              [] c = "used" -> meta.used
              [] c = "total" -> meta.total
              [] c = "expires" -> meta.expire]

\* A faulty variant: a list is stored only where there is none.
ChangedOnce(r) ==
    {c \in DOMAIN new[r] : /\ new[r][c] # row[r][c]
                           /\ c = "outbounds" => row[r].outbounds = Null}

\* Columns an UPDATE of request r names.
Changed(r) == {c \in DOMAIN new[r] : new[r][c] # row[r][c]}

Merge(old, assignments, cols) ==
    [c \in Columns |-> IF c \in cols THEN assignments[c] ELSE old[c]]

\* A faulty variant: the UPDATE names every column, with the values loaded.
WriteWholeRow(r) == Merge(row[r], new[r], Changed(r))

UpdateRow(r) == Merge(db, new[r], Changed(r))

\* The committed row after the write of request r.
Written(r) ==
    CASE kind[r] = "create" -> Merge(row[r], new[r], DOMAIN new[r])
      [] kind[r] \in {"refresh", "update"} -> UpdateRow(r)
      [] kind[r] = "delete" -> NoRow

-----------------------------------------------------------------------------
Init ==
    /\ \/ db = NoRow /\ born = FALSE
       \/ db = FreshRow /\ born = TRUE
    /\ lock = Null
    /\ pc = [r \in Req |-> Idle] /\ kind = [r \in Req |-> Null]
    /\ row = [r \in Req |-> FreshRow] /\ new = [r \in Req |-> Nothing]
    /\ tries = [r \in Req |-> 0] /\ stuck = {} /\ missed = [r \in Req |-> {}]
    /\ serial = db /\ torn = {} /\ source = FirstUrl /\ moved = FALSE

Goto(r, label) == pc' = [pc EXCEPT ![r] = label]

\* The call that request r awaits at this place comes to an end.
At(r, label) == pc[r] = label /\ r \notin stuck

\* It never does: a provider that sends a byte now and then, or a connection to
\* Postgres or Redis that went silent.
Hang(r) ==
    /\ \E label \in {"fetch", "flush", "commit"} : At(r, label)
    /\ stuck' = stuck \cup {r}
    /\ UNCHANGED <<db, lock, born, pc, kind, row, new, tries, history>>

\* create_provider_sub: the INSERT is flushed, and visible to nobody.
CreateProviderSub(r) ==
    /\ pc[r] = Idle /\ ~born /\ born' = TRUE
    /\ kind' = [kind EXCEPT ![r] = "create"]
    /\ row' = [row EXCEPT ![r] = FreshRow]
    /\ \E auto_refresh \in BOOLEAN :
            Goto(r, IF auto_refresh THEN "fetch" ELSE "commit")
    /\ UNCHANGED <<db, lock, new, tries, stuck, history>>

\* A faulty variant: nobody answers 404.
GetSubUnchecked(r, k, label) ==
    /\ pc[r] = Idle /\ born
    /\ kind' = [kind EXCEPT ![r] = k]
    /\ row' = [row EXCEPT ![r] = db] /\ Goto(r, label)
    /\ UNCHANGED <<db, lock, born, tries, stuck, history>>

\* _get_sub_or_404: the SELECT of the other handlers.
GetSub(r, k, label) ==
    /\ pc[r] = Idle /\ born
    /\ kind' = [kind EXCEPT ![r] = k]
    /\ row' = [row EXCEPT ![r] = IF db = NoRow THEN @ ELSE db]
    /\ Goto(r, IF db = NoRow THEN "done" ELSE label)
    /\ UNCHANGED <<db, lock, born, tries, stuck, history>>

RefreshProviderSub(r) == GetSub(r, "refresh", "fetch") /\ UNCHANGED new

\* A PATCH that changes nothing in the row it has loaded writes nothing.
UpdateProviderSub(r) ==
    \E body \in Patches :
        /\ GetSub(r, "update",
                  IF \A c \in DOMAIN body : body[c] = db[c] THEN "done" ELSE "flush")
        /\ new' = [new EXCEPT ![r] = body]

DeleteProviderSub(r) == GetSub(r, "delete", "flush") /\ UNCHANGED new

\* What ends a request without a commit: get_db rolls back.
Rollback(r) ==
    /\ Goto(r, "done") /\ lock' = IF lock = r THEN Null ELSE lock
    /\ UNCHANGED <<db, born, kind, row, new, tries, stuck, history>>

\* ConnectionError: a refresh answers 502, a create keeps the row without list.
FetchFails(r) ==
    IF kind[r] = "create"
    THEN /\ Goto(r, "commit")
         /\ UNCHANGED <<db, lock, born, kind, row, new, tries, stuck, history>>
    ELSE Rollback(r)

\* A faulty variant: the User-Agents are tried in a circle.
NextTryAround(n) == (n + 1) % MaxTries

NextTry(n) == n + 1

\* One try of _fetch_subscription: only a 5xx leads to the next User-Agent.
FetchUnavailable(r) ==
    /\ At(r, "fetch") /\ [status |-> "5xx"] \in Answers
    /\ IF NextTry(tries[r]) < MaxTries
       THEN /\ tries' = [tries EXCEPT ![r] = NextTry(@)]
            /\ UNCHANGED <<db, lock, born, pc, kind, row, new, stuck, history>>
       ELSE FetchFails(r)

FetchRefused(r) ==
    /\ At(r, "fetch")
    /\ \E a \in Answers : a.status \in {"4xx", "network error"}
    /\ FetchFails(r)

\* Anything else is no ConnectionError, and neither is fromtimestamp's.
FetchRaises(r) ==
    /\ At(r, "fetch")
    /\ \E a \in Answers :
        \/ a.status = "other exception"
        \/ a.status = "200" /\ a.header # Null /\ a.header.expire = Absurd
    /\ Rollback(r)

FetchAnswered(r) ==
    /\ At(r, "fetch")
    /\ \E a \in Answers :
        /\ a.status = "200"
        /\ a.header # Null => a.header.expire # Absurd
        /\ new' = [new EXCEPT ![r] = Assigned(r, a)]
    /\ Goto(r, "flush")
    /\ UNCHANGED <<db, lock, born, kind, row, tries, stuck, history>>

\* The UPDATE or DELETE, once no other request holds the row; the row of a
\* create is its own.  An UPDATE of a row that has gone raises, a DELETE warns.
Flush(r) ==
    /\ At(r, "flush")
    /\ \/ /\ kind[r] # "create" /\ db = NoRow /\ kind[r] # "delete"
          /\ Rollback(r)
       \/ /\ kind[r] = "create" \/ db # NoRow \/ kind[r] = "delete"
          /\ kind[r] # "create" => lock = Null
          /\ lock' = IF kind[r] = "create" THEN lock ELSE r
          /\ Goto(r, "commit")
          /\ UNCHANGED <<db, born, kind, row, new, tries, stuck, history>>

\* Columns in which two rows differ; all when one of them is missing.
Differ(old, upd) ==
    IF old = NoRow \/ upd = NoRow THEN Columns
    ELSE {c \in Columns : old[c] # upd[c]}

Commit(r) ==
    /\ At(r, "commit") /\ Goto(r, "done")
    /\ db' = Written(r)
    /\ lock' = IF lock = r THEN Null ELSE lock
    /\ missed' = [q \in Req |-> IF pc[q] \in {"fetch", "flush"}
                                THEN missed[q] \cup Differ(db, db') ELSE missed[q]]
    /\ serial' = IF db' = NoRow THEN NoRow
                 ELSE Merge(IF kind[r] = "create" THEN FreshRow ELSE serial,
                            new[r], DOMAIN new[r])
    /\ torn' = (torn \ DOMAIN new[r])
               \cup ((DOMAIN new[r] \ Changed(r)) \cap missed[r])
    /\ LET listed == "outbounds" \in DOMAIN new[r] \ torn'
       IN  /\ source' = IF listed /\ db'.outbounds = new[r].outbounds
                        THEN row[r].url ELSE source
           /\ moved' = IF listed THEN "url" \in missed[r]
                       ELSE moved \/ "url" \in Differ(db, db')
    /\ UNCHANGED <<born, kind, row, new, tries, stuck>>

\* Between flush and commit every handler invalidates the pool in Redis.
RedisFails(r) == At(r, "commit") /\ Rollback(r)

Next ==
    \E r \in Req :
        \/ CreateProviderSub(r) \/ RefreshProviderSub(r)
        \/ UpdateProviderSub(r) \/ DeleteProviderSub(r)
        \/ FetchUnavailable(r) \/ FetchRefused(r) \/ FetchRaises(r)
        \/ FetchAnswered(r) \/ Flush(r) \/ Commit(r) \/ RedisFails(r) \/ Hang(r)

Fetch(r) ==
    FetchUnavailable(r) \/ FetchRefused(r) \/ FetchRaises(r) \/ FetchAnswered(r)

\* The event loop resumes a request when what it awaits has come, and Postgres
\* grants a lock that is free.  Nothing is assumed of a request that is stuck.
Fairness ==
    \A r \in Req : /\ WF_vars(Fetch(r)) /\ WF_vars(Flush(r))
                   /\ WF_vars(Commit(r) \/ RedisFails(r))

Spec == Init /\ [][Next]_vars /\ Fairness

-----------------------------------------------------------------------------
\* Properties.

\* Type correctness, and who may hold the lock.
TypeOK ==
    /\ db \in Row \cup {NoRow} /\ serial \in Row \cup {NoRow}
    /\ lock \in Req \cup {Null} /\ (lock # Null => pc[lock] = "commit")
    /\ born \in BOOLEAN /\ torn \subseteq Columns
    /\ source \in Url /\ moved \in BOOLEAN
    /\ pc \in [Req -> {Idle, "fetch", "flush", "commit", "done"}]
    /\ kind \in [Req -> Kinds \cup {Null}] /\ row \in [Req -> Row]
    /\ DOMAIN new = Req
    /\ \A r \in Req : /\ DOMAIN new[r] \subseteq Columns
                      /\ \A c \in DOMAIN new[r] : new[r][c] \in Value[c]
    /\ missed \in [Req -> SUBSET Columns]
    /\ tries \in [Req -> 0..(MaxTries - 1)]
    /\ stuck \subseteq {r \in Req : pc[r] \in {"fetch", "flush", "commit"}}

\* The row is what the committed requests would have left had each run alone
\* in the order of the commits, but for columns that a request found unchanged
\* against the row it had loaded while another request was changing them.
\* About refresh_provider_sub, update_provider_sub and the UPDATE that names
\* changed columns only; failed fetches leave no trace.
RowIsSerial ==
    /\ db = NoRow <=> serial = NoRow
    /\ db # NoRow => \A c \in Columns \ torn : db[c] = serial[c]

\* The stored list was fetched from the URL the row shows, unless the URL was
\* edited since the refresh that stored it read the row; nothing refetches after
\* such an edit, and a refresh that left the column to another one is none.
FetchedFromItsUrl ==
    (db # NoRow /\ ~moved) => db.outbounds = Null \/ source = db.url

\* Every request ends, however often the provider answers 5xx and however the
\* requests wait for each other's row lock, unless a call of its own hangs, or
\* one of the request that has the lock.
EveryRequestEnds ==
    \A r \in Req :
        pc[r] # Idle ~> \/ pc[r] = "done" \/ r \in stuck
                        \/ pc[r] = "flush" /\ lock \in stuck

=============================================================================
