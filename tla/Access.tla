------------------------------- MODULE Access -------------------------------
(***************************************************************************)
(* API tokens and tenants' status links: who a request comes from, what it *)
(* may do, and what it does in the database.                               *)
(*                                                                         *)
(* A request's user is resolved once, as it begins; its statements run in  *)
(* one transaction (READ COMMITTED), committed before the answer is sent.  *)
(* What a transaction has written and not committed is in its request and  *)
(* holds the row: who needs that row waits.  A token's secret is its id.   *)
(***************************************************************************)
EXTENDS Integers, Sequences, FiniteSets, TLC

CONSTANTS
    Handlers,     \* threads that answer requests
    Names,        \* token names
    Tenants,      \* Nautobot's tenants
    Roles,        \* the roles tokens are made with
    Settings,     \* [mode, viewer, writes]: AUTH_MODE, AUTH_REQUIRE_VIEWER,
                  \* ALLOW_UNAUTHENTICATED_WRITES
    Lifetimes,    \* values of expires_in_days, {} for none
    Ages,         \* values of older_than_days
    Interval,     \* LAST_USED_INTERVAL
    NTokens,      \* bound: tokens ever inserted
    NLinks,       \* bound: link ids ever made
    MaxClock,     \* bound: the clock
    MaxRequests,  \* bound: requests ever begun
    MaxFailures,  \* bound: commits and statements that fail
    Nobody

ASSUME AccessAssumption ==
    /\ Interval \in Nat /\ NTokens \in Nat /\ NLinks \in Nat
    /\ MaxClock \in Nat /\ MaxRequests \in Nat /\ MaxFailures \in Nat
    /\ Nobody \notin Tenants
    /\ Ages \subseteq Nat /\ \A days \in Lifetimes : days \subseteq Nat

VARIABLES
    time,
    settings,
    token,        \* every token inserted, by id
    rows,         \* the ids in api_tokens, as committed
    link,         \* [Tenants -> {} or {id}] status_links, as committed
    made,         \* link ids made so far
    stage,        \* [Handlers -> where the request is]
    req,          \* [Handlers -> what it asked for, read and wrote]
    begun, failures,
    shown,        \* history: the tokens whose secret was answered
    revokedTold,  \* history: the tokens whose revocation was answered
    linkTold,     \* history: [tenant, id, before]: the links answered
    replaced,     \* history: [Tenants -> Nat] replacements committed
    closedTold    \* history: the link ids whose replacement was answered

db   == <<token, rows, link>>
hist == <<shown, revokedTold, linkTold, replaced, closedTold>>
accessVars == <<time, settings, db, made, stage, req, begun, failures, hist>>

Ids == DOMAIN token

(* What may be asked for: revoking or using any id, an unknown one too.    *)
Asked ==
    [kind : {"create"}, name : Names, role : Roles \ {"status"}, tenant : {Nobody}, days : Lifetimes]
    \cup [kind : {"create"}, name : Names, role : Roles \cap {"status"}, tenant : Tenants,
          days : Lifetimes]
    \cup [kind : {"revoke"}, id : 1 .. NTokens]
    \cup [kind : {"purge"}, age : Ages]
    \cup [kind : {"link", "replace"}, tenant : Tenants]
    \cup [kind : {"status"}, link : 1 .. NLinks]

Nothing == [asked |-> [kind |-> "none"], user |-> Nobody, at |-> 0, new |-> 0, link |-> {},
            own |-> {}, purged |-> {}, tenant |-> {}, before |-> 0, closed |-> {}]

AccessInit ==
    /\ time = 0 /\ settings \in Settings
    /\ token = <<>> /\ rows = {} /\ made = 0
    /\ link = [t \in Tenants |-> {}]
    /\ stage = [r \in Handlers |-> "idle"] /\ req = [r \in Handlers |-> Nothing]
    /\ begun = 0 /\ failures = 0
    /\ shown = {} /\ revokedTold = {} /\ linkTold = {} /\ closedTold = {}
    /\ replaced = [t \in Tenants |-> 0]

Tick ==
    /\ time < MaxClock
    /\ time' = time + 1
    /\ UNCHANGED <<settings, db, made, stage, req, begun, failures, hist>>

Goto(r, place) == stage' = [stage EXCEPT ![r] = place]
Over(r) == Goto(r, "idle") /\ req' = [req EXCEPT ![r] = Nothing]
-----------------------------------------------------------------------------
(* Who is calling.                                                         *)
Anonymous == [auth |-> FALSE, role |-> "", tenant |-> Nobody, token |-> 0, rejected |-> FALSE]

role_level(role) ==
    CASE role = "viewer" -> 1 [] role = "operator" -> 2 [] role = "admin" -> 3 [] OTHER -> 0

(* state, of a row at a time.                                              *)
state(row, at) ==
    IF row.revoked # {} THEN "revoked"
    ELSE IF \E e \in row.expires : e <= at THEN "expired" ELSE "active"

(* find_active: among the committed rows.                                  *)
find_active(k) == k \in rows /\ state(token[k], time) = "active"

(* _token_user: a token that is not active is told so everywhere.          *)
_token_user(k) ==
    IF find_active(k)
    THEN [auth |-> TRUE, role |-> token[k].role, tenant |-> token[k].tenant,
          token |-> k, rejected |-> FALSE]
    ELSE [Anonymous EXCEPT !.rejected = TRUE]

(* What a request can carry: a token, the proxy's headers, or nothing.     *)
Callers == [token : shown, role : {""}] \cup [token : {0}, role : {"", "admin"}]

(* resolve_user: a token in any mode, else the sign-in proxy's headers.    *)
resolve_user(who) ==
    IF who.token # 0 THEN _token_user(who.token)
    ELSE IF settings.mode = "header" /\ who.role # ""
         THEN [Anonymous EXCEPT !.auth = TRUE, !.role = who.role] ELSE Anonymous

is_status_token(user) == user.token # 0 /\ user.role = "status"

_viewer_problem(user) ==
    /\ settings.mode = "header" /\ settings.viewer
    /\ ~ user.auth \/ role_level(user.role) < role_level("viewer")

(* check_request, before every route but the public ones.                  *)
check_request(user, status_path) ==
    \/ user.rejected
    \/ is_status_token(user) /\ ~ status_path
    \/ ~ status_path /\ _viewer_problem(user)

disabled_mode_allows(safe) == safe \/ settings.writes

(* role_problem, of a route that needs the admin role.                     *)
role_problem(user, safe) ==
    IF settings.mode = "disabled" /\ user.token = 0 THEN ~ disabled_mode_allows(safe)
    ELSE ~ user.auth \/ role_level(user.role) < role_level("admin")

(* A slip: a status token opens every tenant's page.                       *)
status_access_any(user, tenant) == user.token = 0 /\ _viewer_problem(user)

(* status_access: a status token only its own tenant; others as the board. *)
status_access(user, tenant) ==
    IF user.token # 0
    THEN IF is_status_token(user) THEN tenant # {user.tenant}
         ELSE role_level(user.role) < role_level("viewer")
    ELSE _viewer_problem(user)

(* Is the request refused before its handler runs?                         *)
Refused(user, kind) ==
    \/ check_request(user, kind = "status")
    \/ kind # "status" /\ role_problem(user, kind = "link")

Stale(k, at) == \A u \in token[k].used : u < at - Interval

(* get_current_user: once per request; verify, of a token that is stale, goes
   on to write its last use. *)
Begin(r, who, asked) ==
    LET user == resolve_user(who)
        place == IF user.token # 0 /\ Stale(user.token, time) THEN "touch"
                 ELSE IF Refused(user, asked.kind) THEN "idle" ELSE "run" IN
    /\ stage[r] = "idle" /\ begun < MaxRequests /\ ~ user.rejected /\ place # "idle"
    /\ asked.kind = "revoke" => asked.id <= Len(token)
    /\ asked.kind = "status" => asked.link <= made
    /\ begun' = begun + 1
    /\ req' = [req EXCEPT ![r] =
                 [Nothing EXCEPT !.asked = asked, !.user = user, !.at = time,
                    !.closed = closedTold,
                    !.before = IF asked.kind \in {"link", "create"} /\ asked.tenant # Nobody
                               THEN replaced[asked.tenant] ELSE 0]]
    /\ Goto(r, place)
    /\ UNCHANGED <<time, settings, db, made, failures, hist>>
-----------------------------------------------------------------------------
(* Transactions.                                                           *)

(* The rows the others have written and not committed.                     *)
Waiting(r) == {q \in Handlers \ {r} : stage[q] \in {"ensure", "insert", "read", "commit"}}
HeldNames(r) ==
    {token[req[q].new].name : q \in {p \in Waiting(r) : req[p].new # 0}}
    \cup {token[k].name : k \in UNION {req[q].purged : q \in Waiting(r)}}
HeldTokens(r) ==
    UNION {req[q].purged : q \in Waiting(r)}
    \cup {k \in rows : token[k].revoked = {} /\
             \E q \in Waiting(r) : req[q].asked.kind = "revoke" /\ req[q].asked.id = k}
HeldLinks(r) == {req[q].asked.tenant : q \in {p \in Waiting(r) : req[p].own # {}}}

(* A slip: every request that saw the token stale writes.                  *)
TouchAlways(k, at) == TRUE

(* touch: the same condition again, on the row as it is now.               *)
TouchDue(k, at) == k \in rows /\ Stale(k, at)

(* touch, committed on a session of its own.                               *)
Touch(r) ==
    LET k == req[r].user.token IN
    /\ stage[r] = "touch" /\ k \notin HeldTokens(r)
    /\ token' = IF TouchDue(k, req[r].at) THEN [token EXCEPT ![k].used = {req[r].at}] ELSE token
    /\ IF Refused(req[r].user, req[r].asked.kind) THEN Over(r)
       ELSE Goto(r, "run") /\ UNCHANGED req
    /\ UNCHANGED <<time, settings, rows, link, made, begun, failures, hist>>

NameTaken(name) == \E k \in rows : token[k].name = name

(* create: ON CONFLICT (name) DO NOTHING is the check.                     *)
Create(r) ==
    LET asked == req[r].asked IN
    /\ stage[r] = "run" /\ asked.kind = "create"
    /\ asked.name \notin HeldNames(r)
    /\ IF NameTaken(asked.name)
       THEN Over(r) /\ UNCHANGED token
       ELSE /\ Len(token) < NTokens
            /\ token' = Append(token, [name |-> asked.name, role |-> asked.role,
                                       tenant |-> asked.tenant, used |-> {}, revoked |-> {},
                                       expires |-> {time + d : d \in asked.days}])
            /\ req' = [req EXCEPT ![r].new = Len(token) + 1]
            /\ Goto(r, IF asked.tenant # Nobody THEN "ensure" ELSE "commit")
    /\ UNCHANGED <<time, settings, rows, link, made, begun, failures, hist>>

(* revoke: only one that is not revoked; revoking twice changes nothing.   *)
Revoke(r) ==
    LET k == req[r].asked.id IN
    /\ stage[r] = "run" /\ req[r].asked.kind = "revoke"
    /\ k \notin HeldTokens(r)
    /\ IF k \in rows
       THEN Goto(r, "commit") /\ req' = [req EXCEPT ![r].at = time]
       ELSE Over(r)
    /\ UNCHANGED <<time, settings, db, made, begun, failures, hist>>

(* A slip: older_than_days goes by the last use.                           *)
InactiveUnused(row, now, cutoff) ==
    \/ row.revoked # {} /\ \E t \in row.revoked : t <= cutoff
    \/ \E u \in row.used : u <= cutoff - 1

(* INACTIVE: it stopped working, revoked or expired, by the cutoff.        *)
Inactive(row, now, cutoff) ==
    /\ row.revoked # {} \/ \E e \in row.expires : e <= now
    /\ \E t \in row.revoked \cup row.expires : t <= cutoff

(* purge: deletes them in one statement.                                   *)
Purge(r) ==
    LET gone == {k \in rows : Inactive(token[k], time, time - req[r].asked.age)} IN
    /\ stage[r] = "run" /\ req[r].asked.kind = "purge"
    /\ gone \cap HeldTokens(r) = {}
    /\ req' = [req EXCEPT ![r].purged = gone]
    /\ Goto(r, "commit")
    /\ UNCHANGED <<time, settings, db, made, begun, failures, hist>>

(* ensure reads the link; without one it makes an id.                      *)
EnsureRead(r) ==
    LET t == req[r].asked.tenant IN
    /\ stage[r] = "ensure" \/ (stage[r] = "run" /\ req[r].asked.kind = "link")
    /\ req' = [req EXCEPT ![r].link = link[t]]
    /\ Goto(r, IF link[t] # {} THEN "commit" ELSE "insert")
    /\ UNCHANGED <<time, settings, db, made, begun, failures, hist>>

(* insert_missing: waits for another's insert; theirs are kept.            *)
EnsureInsert(r) ==
    LET t == req[r].asked.tenant IN
    /\ stage[r] = "insert" /\ made < NLinks
    /\ t \notin HeldLinks(r)
    /\ made' = made + 1
    /\ req' = [req EXCEPT ![r].link = {made + 1},
                          ![r].own = IF link[t] = {} THEN {made + 1} ELSE {}]
    /\ Goto(r, "read")
    /\ UNCHANGED <<time, settings, db, begun, failures, hist>>

(* A slip: the id it made is taken for the stored one.                     *)
ReReadMade(r) == req[r].link

ReRead(r) == IF req[r].own # {} THEN req[r].own ELSE link[req[r].asked.tenant]

EnsureReRead(r) ==
    /\ stage[r] = "read"
    /\ req' = [req EXCEPT ![r].link = ReRead(r)]
    /\ Goto(r, "commit")
    /\ UNCHANGED <<time, settings, db, made, begun, failures, hist>>

(* A status token's link cannot be read or made: the savepoint is rolled
   back, the token stands. *)
LinkFails(r) ==
    /\ stage[r] \in {"ensure", "insert", "read"} /\ req[r].new # 0 /\ failures < MaxFailures
    /\ req' = [req EXCEPT ![r].link = {}, ![r].own = {}]
    /\ Goto(r, "commit")
    /\ failures' = failures + 1
    /\ UNCHANGED <<time, settings, db, made, begun, hist>>

(* replace: an upsert.                                                     *)
Replace(r) ==
    LET t == req[r].asked.tenant IN
    /\ stage[r] = "run" /\ req[r].asked.kind = "replace" /\ made < NLinks
    /\ t \notin HeldLinks(r)
    /\ made' = made + 1
    /\ req' = [req EXCEPT ![r].link = {made + 1}, ![r].own = {made + 1}]
    /\ Goto(r, "commit")
    /\ UNCHANGED <<time, settings, db, begun, failures, hist>>

(* tenant_for, on a connection given back before the board is read.        *)
tenant_for(id) == {t \in Tenants : link[t] = {id}}

ReadLink(r) ==
    /\ stage[r] = "run" /\ req[r].asked.kind = "status"
    /\ req' = [req EXCEPT ![r].tenant = tenant_for(req[r].asked.link)]
    /\ Goto(r, "page")
    /\ UNCHANGED <<time, settings, db, made, begun, failures, hist>>

(* What the transaction wrote is there for the others.                     *)
Written(r) ==
    LET asked == req[r].asked IN
    /\ rows' = (rows \cup ({req[r].new} \ {0})) \ req[r].purged
    /\ token' = IF asked.kind = "revoke" /\ token[asked.id].revoked = {}
                THEN [token EXCEPT ![asked.id].revoked = {req[r].at}] ELSE token
    /\ link' = IF req[r].own # {} THEN [link EXCEPT ![asked.tenant] = req[r].own] ELSE link
    /\ replaced' = IF asked.kind = "replace"
                   THEN [replaced EXCEPT ![asked.tenant] = @ + 1] ELSE replaced

(* A slip: the route's answer is sent although the commit failed.          *)
AnswerSentAlways(ok) == TRUE

(* Is the route's own answer sent?  Else "Commit failed", a 500.           *)
AnswerSent(ok) == ok

(* send_after_commit: the commit, or the rollback, before the status line. *)
Commit(r, ok) ==
    /\ stage[r] = "commit"
    /\ ok \/ failures < MaxFailures
    /\ IF ok THEN Written(r) ELSE UNCHANGED <<db, replaced>>
    /\ failures' = IF ok THEN failures ELSE failures + 1
    /\ IF AnswerSent(ok)
       THEN /\ Goto(r, "send")
            /\ req' = IF req[r].asked.kind = "replace"
                      THEN [req EXCEPT ![r].closed = link[req[r].asked.tenant]] ELSE req
       ELSE Over(r)
    /\ UNCHANGED <<time, settings, made, begun, shown, revokedTold, linkTold, closedTold>>

(* The answer goes out.                                                    *)
Send(r) ==
    LET asked == req[r].asked
        of(kind, set) == IF asked.kind = kind THEN set ELSE {} IN
    /\ stage[r] = "send"
    /\ shown' = shown \cup of("create", {req[r].new})
    /\ revokedTold' = revokedTold \cup of("revoke", {k \in Ids : k = asked.id})
    /\ linkTold' = linkTold \cup
         IF asked.kind \in {"link", "create"}
         THEN {[tenant |-> asked.tenant, id |-> id, before |-> req[r].before] : id \in req[r].link}
         ELSE {}
    /\ closedTold' = closedTold \cup of("replace", req[r].closed)
    /\ Over(r)
    /\ UNCHANGED <<time, settings, db, made, begun, failures, replaced>>

(* _answer: access first, then whether the link opens anything.            *)
Opens(r) == ~ status_access(req[r].user, req[r].tenant) /\ req[r].tenant # {}

Page(r) ==
    /\ stage[r] = "page"
    /\ Over(r)
    /\ UNCHANGED <<time, settings, db, made, begun, failures, hist>>
-----------------------------------------------------------------------------
Step(r) ==
    \/ Touch(r) \/ Create(r) \/ Revoke(r) \/ Purge(r) \/ Replace(r)
    \/ EnsureRead(r) \/ EnsureInsert(r) \/ EnsureReRead(r) \/ LinkFails(r)
    \/ ReadLink(r) \/ Page(r) \/ Send(r)
    \/ \E ok \in BOOLEAN : Commit(r, ok)

AccessNext ==
    \/ Tick
    \/ \E r \in Handlers :
         \/ \E who \in Callers, asked \in Asked : Begin(r, who, asked)
         \/ Step(r)

AccessSpec == AccessInit /\ [][AccessNext]_accessVars
-----------------------------------------------------------------------------
(* "Refused from the next request on": a request that begins after a token's
   revocation was answered does not get in with it, also when commits fail
   and other requests revoke, use or purge the same token meanwhile. *)
RevokedRefused ==
    [][\A r \in Handlers : stage[r] = "idle" /\ stage'[r] # "idle" =>
         req'[r].user.token \notin revokedTold]_accessVars

(* A secret that was answered works until it is revoked or expires: its row
   is there, whatever failed and whatever was purged. *)
ShownWorks ==
    \A k \in shown : k \in rows \/ state(token[k], time) # "active"

(* "Of requests that all saw it stale, one writes": a token's last use is
   written at most once in the interval, and only moves forward. *)
UsedOnce ==
    [][\A k \in Ids : token'[k].used # token[k].used =>
         \A u \in token[k].used, v \in token'[k].used : v - u > Interval]_accessVars

(* A link that was answered for a tenant opens its page, until a replacement
   that was not yet committed when the link was asked for: two requests that
   make a tenant's first link answer the same one. *)
LinkKept ==
    \A l \in linkTold : l.tenant \in tenant_for(l.id) \/ replaced[l.tenant] > l.before

(* A page is shown only through a link that had not been answered as replaced
   when the request began, and a status token is shown its own tenant's. *)
PageOwn ==
    [][\A r \in Handlers : stage[r] = "page" /\ stage'[r] = "idle" /\ Opens(r) =>
         /\ req[r].asked.link \notin req[r].closed
         /\ is_status_token(req[r].user) => req[r].tenant = {req[r].user.tenant}]_accessVars
=============================================================================
