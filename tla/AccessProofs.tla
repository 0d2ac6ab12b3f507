---------------------------- MODULE AccessProofs ----------------------------
(***************************************************************************)
(* Proofs about Access, for any number of requests, tokens, tenants and    *)
(* failures: a revoked token is refused, a secret that was answered works, *)
(* a token's use is written once in the interval, and a status link opens  *)
(* its own tenant's page until it is replaced.                             *)
(***************************************************************************)
EXTENDS Access, SequenceTheorems, TLAPS

(* A row of api_tokens.                                                    *)
TokenRow == [name : Names, role : Roles, tenant : Tenants \cup {Nobody}, used : SUBSET Nat,
             revoked : SUBSET Nat, expires : SUBSET Nat]

(* Whom a request comes from.                                              *)
UserRoles == Roles \cup {"", "admin"}
User == [auth : BOOLEAN, role : UserRoles, tenant : Tenants \cup {Nobody}, token : Nat,
         rejected : BOOLEAN]

AskedOrNot == Asked \cup {[kind |-> "none"]}
UserOrNot == User \cup {Nobody}

(* What a request keeps until it is over.                                  *)
Request == [asked : AskedOrNot, user : UserOrNot, at : Nat, new : Nat,
            link : SUBSET Nat, own : SUBSET Nat, purged : SUBSET Nat,
            tenant : SUBSET Tenants, before : Nat, closed : SUBSET Nat]

Answer == [tenant : Tenants, id : Nat, before : Nat]

Places == {"idle", "touch", "run", "ensure", "insert", "read", "commit", "send", "page"}

TypeOK ==
    /\ time \in Nat /\ made \in Nat
    /\ token \in Seq(TokenRow) /\ rows \subseteq Ids
    /\ link \in [Tenants -> SUBSET Nat] /\ replaced \in [Tenants -> Nat]
    /\ stage \in [Handlers -> Places] /\ req \in [Handlers -> Request]
    /\ shown \subseteq Ids /\ revokedTold \subseteq Ids
    /\ linkTold \subseteq Answer /\ closedTold \subseteq Nat

(* What a request asked for, and what it has of its own at each place.     *)
WellFormed(r) ==
    LET asked == req[r].asked IN
    /\ stage[r] = "idle" => req[r] = Nothing
    /\ stage[r] # "idle" => asked \in Asked /\ req[r].user \in User
    /\ asked.kind = "revoke" => asked.id \in Ids
    /\ stage[r] \in {"ensure", "insert", "read"} =>
         asked.kind \in {"create", "link"} /\ asked.tenant \in Tenants
    /\ req[r].new \in 0 .. Len(token)
    /\ asked.kind = "create" /\ stage[r] \in {"ensure", "insert", "read", "commit", "send"} =>
         req[r].new # 0
    /\ req[r].purged \subseteq Ids /\ (asked.kind # "purge" => req[r].purged = {})
    /\ req[r].link # {} \/ req[r].own # {} =>
         asked.kind \in {"create", "link", "replace"} /\ asked.tenant \in Tenants

AllWellFormed == \A r \in Handlers : WellFormed(r)

TypeInv == TypeOK /\ AllWellFormed

(* A token that is no longer active, for good.                             *)
Dead(k) == state(token[k], time) # "active"

(* What a request deletes is dead; what it will answer is in the database. *)
TokensOf(r) ==
    /\ \A k \in req[r].purged : Dead(k)
    /\ stage[r] = "send" /\ req[r].asked.kind = "create" =>
         req[r].new \in rows \/ Dead(req[r].new)
    /\ stage[r] = "send" /\ req[r].asked.kind = "revoke" =>
         token[req[r].asked.id].revoked # {}

TokensInv ==
    /\ TypeInv /\ ShownWorks
    /\ \A k \in revokedTold : token[k].revoked # {}
    /\ \A r \in Handlers : TokensOf(r)

(* The link ids transactions that are under way have written.              *)
Pending == {r \in Handlers : stage[r] \in {"read", "commit"} /\ req[r].own # {}}

(* One id a tenant, no id twice, and one transaction at a tenant's row: no
   other has a link to it that it did not find. *)
LinksDistinct ==
    /\ \A t \in Tenants : link[t] \subseteq 1 .. made /\ \A i, j \in link[t] : i = j
    /\ \A t, u \in Tenants : t # u => link[t] \cap link[u] = {}
    /\ \A r \in Handlers : /\ req[r].own \subseteq 1 .. made
                           /\ \A i, j \in req[r].own : i = j
                           /\ stage[r] \in {"idle", "touch", "run", "ensure", "insert", "page"} =>
                                req[r].own = {}
    /\ \A r \in Pending : \A t \in Tenants : req[r].own \cap link[t] = {}
    /\ \A r, q \in Pending : r # q =>
         req[r].own \cap req[q].own = {} /\ req[r].asked.tenant # req[q].asked.tenant
    /\ \A r \in Pending : req[r].asked.kind # "replace" => link[req[r].asked.tenant] = {}

(* An id that opens no page again.                                         *)
Gone(id) ==
    /\ id \in 1 .. made
    /\ \A t \in Tenants : id \notin link[t]
    /\ \A r \in Pending : id \notin req[r].own

(* The link a request will answer is the tenant's, or will be when the
   request has committed, or has been replaced since it was asked for. *)
Answers(r) ==
    LET t == req[r].asked.tenant IN
    req[r].asked.kind \in {"create", "link"} /\ t \in Tenants =>
        /\ req[r].before <= replaced[t]
        /\ stage[r] \in {"commit", "send"} => \A id \in req[r].link :
             \/ link[t] = {id}
             \/ stage[r] = "commit" /\ req[r].own = {id}
             \/ replaced[t] > req[r].before

(* What a request knows of links: those it took for closed are gone.       *)
LinksOf(r) ==
    /\ Answers(r)
    /\ \A id \in req[r].closed : Gone(id)
    /\ stage[r] = "commit" /\ req[r].asked.kind = "replace" => req[r].own # {}
    /\ stage[r] = "page" /\ req[r].tenant # {} => req[r].asked.link \notin req[r].closed

LinksInv ==
    /\ TypeInv /\ LinksDistinct /\ LinkKept
    /\ \A l \in linkTold : l.before <= replaced[l.tenant]
    /\ \A id \in closedTold : Gone(id)
    /\ \A r \in Handlers : LinksOf(r)
-----------------------------------------------------------------------------
(* What is asked for, kind by kind.                                        *)
LEMMA AskedShape ==
    ASSUME NEW asked \in Asked
    PROVE  /\ asked.kind \in {"create", "revoke", "purge", "link", "replace", "status"}
           /\ asked.kind = "create" => /\ asked.name \in Names /\ asked.role \in Roles
                                       /\ asked.tenant \in Tenants \cup {Nobody}
                                       /\ asked.days \in Lifetimes
           /\ asked.kind = "revoke" => asked.id \in 1 .. NTokens
           /\ asked.kind = "purge" => asked.age \in Ages
           /\ asked.kind \in {"link", "replace"} => asked.tenant \in Tenants
           /\ asked.kind = "status" => asked.link \in Nat
<1> DEFINE Others == Roles \ {"status"}
           Ours == Roles \cap {"status"}
<1>1. /\ \A role \in Others : role \in Roles
      /\ \A role \in Ours : role \in Roles
  OBVIOUS
<1>2. asked \in [kind : {"create"}, name : Names, role : Others, tenant : {Nobody},
                 days : Lifetimes]
      \/ asked \in [kind : {"create"}, name : Names, role : Ours, tenant : Tenants,
                    days : Lifetimes]
      \/ asked \in [kind : {"revoke"}, id : 1 .. NTokens]
      \/ asked \in [kind : {"purge"}, age : Ages]
      \/ asked \in [kind : {"link", "replace"}, tenant : Tenants]
      \/ asked \in [kind : {"status"}, link : 1 .. NLinks]
  BY Zenon DEF Asked
<1> HIDE DEF Others, Ours
<1> QED  BY <1>1, <1>2, AccessAssumption DEF AccessAssumption

(* Nobody has asked for anything at first.                                 *)
LEMMA NothingTyped ==
    /\ Nothing \in Request
    /\ Nothing.asked.kind = "none" /\ Nothing.new = 0
    /\ Nothing.link = {} /\ Nothing.own = {} /\ Nothing.purged = {}
    /\ Nothing.tenant = {} /\ Nothing.closed = {}
<1>1. Nothing.asked \in AskedOrNot
  BY Zenon DEF AskedOrNot, Nothing
<1>2. Nobody \in UserOrNot
  BY Zenon DEF UserOrNot
<1> QED  BY <1>1, <1>2 DEF Request, Nothing

(* A user is a token's, the sign-in proxy's or nobody.                     *)
LEMMA UserTyped ==
    ASSUME TypeInv, NEW who \in Callers
    PROVE  /\ resolve_user(who) \in User
           /\ resolve_user(who).token # 0 =>
                /\ resolve_user(who).token \in rows
                /\ ~ resolve_user(who).rejected =>
                     state(token[resolve_user(who).token], time) = "active"
<1>1. /\ "" \in UserRoles /\ "admin" \in UserRoles
      /\ \A role \in Roles : role \in UserRoles
  BY Zenon DEF UserRoles
<1>2. Anonymous \in User /\ Anonymous.token = 0
  BY <1>1 DEF Anonymous, User
<1>3. token \in Seq(TokenRow) /\ rows \subseteq Ids /\ shown \subseteq Ids
  BY DEF TypeInv, TypeOK
<1>4. \A k \in Ids : k \in Nat /\ k # 0 /\ token[k] \in TokenRow
  BY <1>3, LenProperties, ElementOfSeq DEF Ids
<1>5. who.token \in shown \/ (who.token = 0 /\ who.role \in {"", "admin"})
  BY Zenon DEF Callers
<1>6. ASSUME who.token # 0
      PROVE  /\ _token_user(who.token) \in User
             /\ _token_user(who.token).token # 0 =>
                  /\ _token_user(who.token).token = who.token
                  /\ find_active(who.token)
  <2>1. who.token \in Nat /\ token[who.token].role \in UserRoles
        /\ token[who.token].tenant \in Tenants \cup {Nobody}
    BY <1>1, <1>3, <1>4, <1>5, <1>6 DEF TokenRow
  <2>2. [Anonymous EXCEPT !.rejected = TRUE] \in User
        /\ [Anonymous EXCEPT !.rejected = TRUE].token = 0
    BY <1>2 DEF User, Anonymous
  <2>3. [auth |-> TRUE, role |-> token[who.token].role, tenant |-> token[who.token].tenant,
         token |-> who.token, rejected |-> FALSE] \in User
    BY <2>1 DEF User
  <2> QED  BY <2>1, <2>2, <2>3 DEF _token_user
<1>7. ASSUME who.token = 0
      PROVE  resolve_user(who) \in User /\ resolve_user(who).token = 0
  <2>1. who.role \in UserRoles
    BY <1>1, <1>3, <1>4, <1>5, <1>7
  <2>2. [Anonymous EXCEPT !.auth = TRUE, !.role = who.role] \in User
        /\ [Anonymous EXCEPT !.auth = TRUE, !.role = who.role].token = 0
    BY <2>1, <1>2 DEF User, Anonymous
  <2> QED  BY <2>2, <1>2, <1>7 DEF resolve_user
<1> QED
  BY <1>6, <1>7 DEF resolve_user, find_active

-----------------------------------------------------------------------------
(* Types.                                                                  *)

(* What a step leaves well typed: only r's place and record change, and no
   token's id is lost. *)
LEMMA StepKeepsTypes ==
    ASSUME TypeInv, NEW r \in Handlers, NEW place \in Places, NEW record \in Request,
           stage' = [stage EXCEPT ![r] = place], req' = [req EXCEPT ![r] = record],
           time' \in Nat, made' \in Nat,
           token' \in Seq(TokenRow), Len(token) <= Len(token'), rows' \subseteq Ids',
           link' \in [Tenants -> SUBSET Nat], replaced' \in [Tenants -> Nat],
           shown' \subseteq Ids', revokedTold' \subseteq Ids',
           linkTold' \subseteq Answer, closedTold' \subseteq Nat,
           WellFormed(r)'
    PROVE  TypeInv'
<1>0. /\ stage \in [Handlers -> Places] /\ req \in [Handlers -> Request]
      /\ token \in Seq(TokenRow)
      /\ \A q \in Handlers : WellFormed(q)
  BY Zenon DEF TypeInv, TypeOK, AllWellFormed
<1>1. stage' \in [Handlers -> Places] /\ req' \in [Handlers -> Request]
  BY <1>0
<1>2. Len(token) \in Nat /\ Len(token') \in Nat
      /\ Ids = 1 .. Len(token) /\ Ids' = 1 .. Len(token')
  BY <1>0, LenProperties DEF Ids
<1>3. Ids \subseteq Ids' /\ 0 .. Len(token) \subseteq 0 .. Len(token')
  BY <1>2
<1>4. ASSUME NEW q \in Handlers, q # r
      PROVE  WellFormed(q)'
  <2>1. stage'[q] = stage[q] /\ req'[q] = req[q]
    BY <1>0, <1>4
  <2>2. WellFormed(q)
    BY <1>0
  <2> QED  BY <2>1, <2>2, <1>3 DEF WellFormed
<1>5. AllWellFormed'
  BY <1>4 DEF AllWellFormed
<1>6. TypeOK'
  BY <1>1 DEF TypeOK
<1> QED  BY <1>5, <1>6 DEF TypeInv
(* What is known of a request.                                             *)
LEMMA Known ==
    ASSUME TypeInv, NEW r \in Handlers
    PROVE  /\ stage \in [Handlers -> Places] /\ req \in [Handlers -> Request]
           /\ stage[r] \in Places /\ req[r] \in Request
           /\ token \in Seq(TokenRow) /\ Len(token) \in Nat /\ Ids = 1 .. Len(token)
           /\ time \in Nat /\ made \in Nat /\ rows \subseteq Ids
           /\ link \in [Tenants -> SUBSET Nat] /\ replaced \in [Tenants -> Nat]
           /\ shown \subseteq Ids /\ revokedTold \subseteq Ids
           /\ linkTold \subseteq Answer /\ closedTold \subseteq Nat
           /\ WellFormed(r)
           /\ stage[r] # "idle" => req[r].asked \in Asked /\ req[r].user \in User
  BY LenProperties DEF TypeInv, TypeOK, AllWellFormed, WellFormed, Ids

(* A request that is over is as it began.                                  *)
LEMMA OverKeepsTypes ==
    ASSUME TypeInv, NEW r \in Handlers, Over(r),
           time' \in Nat, made' \in Nat,
           token' \in Seq(TokenRow), Len(token) <= Len(token'), rows' \subseteq Ids',
           link' \in [Tenants -> SUBSET Nat], replaced' \in [Tenants -> Nat],
           shown' \subseteq Ids', revokedTold' \subseteq Ids',
           linkTold' \subseteq Answer, closedTold' \subseteq Nat
    PROVE  TypeInv'
<1>1. stage' = [stage EXCEPT ![r] = "idle"] /\ req' = [req EXCEPT ![r] = Nothing]
  BY DEF Over, Goto
<1>2. "idle" \in Places /\ Nothing \in Request
  BY NothingTyped DEF Places
<1>3. stage'[r] = "idle" /\ req'[r] = Nothing
  BY <1>1, Known
<1>4. Len(token') \in Nat
  BY LenProperties
<1>5. WellFormed(r)'
  BY <1>3, <1>4, NothingTyped DEF WellFormed
<1> QED  BY <1>1, <1>2, <1>5, StepKeepsTypes

(* A step of a request that leaves the database and what was answered.     *)
LEMMA RequestKeepsTypes ==
    ASSUME TypeInv, NEW r \in Handlers, NEW place \in Places, NEW record \in Request,
           stage' = [stage EXCEPT ![r] = place], req' = [req EXCEPT ![r] = record],
           made' \in Nat, token' \in Seq(TokenRow), Len(token) <= Len(token'),
           UNCHANGED <<time, rows, link, hist>>, WellFormed(r)'
    PROVE  TypeInv'
<1>1. Len(token) \in Nat /\ Len(token') \in Nat
      /\ Ids = 1 .. Len(token) /\ Ids' = 1 .. Len(token')
  BY Known, LenProperties DEF Ids
<1>2. Ids \subseteq Ids'
  BY <1>1
<1>3. /\ time' \in Nat /\ rows' \subseteq Ids'
      /\ link' \in [Tenants -> SUBSET Nat] /\ replaced' \in [Tenants -> Nat]
      /\ shown' \subseteq Ids' /\ revokedTold' \subseteq Ids'
      /\ linkTold' \subseteq Answer /\ closedTold' \subseteq Nat
  BY <1>2, Known DEF hist
<1> QED  BY <1>3, StepKeepsTypes

(* A request begins with what its user asks for.                           *)
LEMMA BeginKeepsTypes ==
    ASSUME TypeInv, NEW r \in Handlers, NEW who \in Callers, NEW asked \in Asked,
           Begin(r, who, asked)
    PROVE  TypeInv'
<1> DEFINE user == resolve_user(who)
           record == [Nothing EXCEPT !.asked = asked, !.user = user, !.at = time,
                        !.closed = closedTold,
                        !.before = IF asked.kind \in {"link", "create"} /\ asked.tenant # Nobody
                                   THEN replaced[asked.tenant] ELSE 0]
<1>1. PICK place \in {"touch", "run"} :
           /\ stage' = [stage EXCEPT ![r] = place] /\ req' = [req EXCEPT ![r] = record]
           /\ asked.kind = "revoke" => asked.id <= Len(token)
           /\ UNCHANGED <<time, token, rows, link, made, hist>>
  BY Zenon DEF Begin, Goto, db
<1>2. user \in User
  BY UserTyped
<1>3. asked \in AskedOrNot /\ user \in UserOrNot
  BY <1>2, Zenon DEF AskedOrNot, UserOrNot
<1>4. closedTold \in SUBSET Nat /\ time \in Nat
  BY Known
<1>5. (IF asked.kind \in {"link", "create"} /\ asked.tenant # Nobody
       THEN replaced[asked.tenant] ELSE 0) \in Nat
  BY Known, AskedShape
<1>6. /\ record \in Request /\ record.asked = asked /\ record.user = user
      /\ record.new = 0 /\ record.purged = {} /\ record.link = {} /\ record.own = {}
  <2> HIDE DEF user
  <2> QED  BY <1>3, <1>4, <1>5, NothingTyped DEF Request, Nothing
<1> HIDE DEF record, user
<1>7. stage'[r] = place /\ req'[r] = record
  BY <1>1, Known
<1>8. asked.kind = "revoke" => asked.id \in 1 .. Len(token)
  <2>1. asked.kind = "revoke" => asked.id \in 1 .. NTokens
    BY AskedShape
  <2> QED  BY <2>1, <1>1, Known, AccessAssumption DEF AccessAssumption
<1>9. WellFormed(r)'
  BY <1>1, <1>2, <1>6, <1>7, <1>8, Known DEF WellFormed, Ids
<1>10. /\ place \in Places /\ record \in Request
       /\ made' \in Nat /\ token' \in Seq(TokenRow) /\ Len(token) <= Len(token')
       /\ UNCHANGED <<time, rows, link, hist>>
  BY <1>1, <1>6, Known DEF Places
<1> QED  BY <1>1, <1>9, <1>10, RequestKeepsTypes, Zenon

(* The last use is written.                                                *)
LEMMA TouchKeepsTypes ==
    ASSUME TypeInv, NEW r \in Handlers, Touch(r)
    PROVE  TypeInv'
<1> DEFINE k == req[r].user.token
           used == [token EXCEPT ![k].used = {req[r].at}]
<1>1. token' = token \/ (k \in rows /\ token' = used)
  BY Zenon DEF Touch, TouchDue
<1>2. ASSUME k \in rows
      PROVE  used \in Seq(TokenRow) /\ Len(used) = Len(token)
  <2>1. k \in 1 .. Len(token) /\ token \in Seq(TokenRow) /\ req[r].at \in Nat
    BY <1>2, Known DEF Request
  <2>2. token[k] \in TokenRow
    BY <2>1, ElementOfSeq
  <2>3. [token[k] EXCEPT !.used = {req[r].at}] \in TokenRow
    BY <2>1, <2>2 DEF TokenRow
  <2>4. used = [token EXCEPT ![k] = [token[k] EXCEPT !.used = {req[r].at}]]
    OBVIOUS
  <2> HIDE DEF used, k
  <2> DEFINE row == [token[k] EXCEPT !.used = {req[r].at}]
  <2>5. row \in TokenRow /\ used = [token EXCEPT ![k] = row]
    BY <2>3, <2>4
  <2> HIDE DEF row
  <2> QED  BY <2>1, <2>5, ExceptSeq
<1>3. token' \in Seq(TokenRow) /\ Len(token') = Len(token)
  BY <1>1, <1>2, Known
<1>4. UNCHANGED <<time, rows, link, made, hist>> /\ stage[r] = "touch"
  BY DEF Touch
<1>5. Len(token) \in Nat /\ Ids = 1 .. Len(token) /\ Ids' = 1 .. Len(token)
  BY <1>3, Known, LenProperties DEF Ids
<1>6. CASE Over(r)
  BY <1>3, <1>4, <1>5, <1>6, Known, OverKeepsTypes DEF hist
<1>7. CASE Goto(r, "run") /\ UNCHANGED req
  <2>1. stage'[r] = "run" /\ req' = [req EXCEPT ![r] = req[r]]
    BY <1>7, Known DEF Goto
  <2>2. WellFormed(r)'
    BY <2>1, <1>4, <1>5, <1>7, <1>3, Known DEF WellFormed
  <2>3. /\ "run" \in Places /\ req[r] \in Request
        /\ made' \in Nat /\ token' \in Seq(TokenRow) /\ Len(token) <= Len(token')
        /\ UNCHANGED <<time, rows, link, hist>>
        /\ stage' = [stage EXCEPT ![r] = "run"]
    BY <1>3, <1>4, <1>7, Known DEF Places, Goto
  <2> QED  BY <2>1, <2>2, <2>3, RequestKeepsTypes, Zenon
<1> QED  BY <1>6, <1>7 DEF Touch

(* A new token has an id of its own.                                       *)
LEMMA CreateKeepsTypes ==
    ASSUME TypeInv, NEW r \in Handlers, Create(r)
    PROVE  TypeInv'
<1> DEFINE asked == req[r].asked
           row == [name |-> asked.name, role |-> asked.role, tenant |-> asked.tenant,
                   used |-> {}, revoked |-> {}, expires |-> {time + d : d \in asked.days}]
           place == IF asked.tenant # Nobody THEN "ensure" ELSE "commit"
           record == [req[r] EXCEPT !.new = Len(token) + 1]
<1>1. /\ UNCHANGED <<time, rows, link, made, hist>>
      /\ stage[r] = "run" /\ asked.kind = "create"
  BY DEF Create
<1>2. asked \in Asked /\ asked.name \in Names /\ asked.role \in Roles
      /\ asked.tenant \in Tenants \cup {Nobody} /\ asked.days \in Lifetimes
  BY <1>1, Known, AskedShape
<1>3. CASE Over(r) /\ UNCHANGED token
  BY <1>1, <1>3, Known, OverKeepsTypes DEF hist, Ids
<1>4. CASE /\ token' = Append(token, row)
           /\ req' = [req EXCEPT ![r].new = Len(token) + 1]
           /\ Goto(r, place)
  <2>1. {time + d : d \in asked.days} \in SUBSET Nat
    BY <1>2, Known, AccessAssumption DEF AccessAssumption
  <2>2. row \in TokenRow
    <3> HIDE DEF asked
    <3> QED  BY <1>2, <2>1 DEF TokenRow
  <2>3. token' \in Seq(TokenRow) /\ Len(token') = Len(token) + 1
    <3> HIDE DEF row
    <3> QED  BY <2>2, <1>4, Known, AppendProperties
  <2>4. record \in Request /\ record.new = Len(token) + 1 /\ record.asked = asked
        /\ record.user = req[r].user /\ record.purged = req[r].purged
        /\ record.link = req[r].link /\ record.own = req[r].own
    <3>1. req[r] \in Request /\ Len(token) + 1 \in Nat
      BY Known
    <3> QED  BY <3>1 DEF Request
  <2>5. req' = [req EXCEPT ![r] = record] /\ stage' = [stage EXCEPT ![r] = place]
    BY <1>4 DEF Goto
  <2>6. place \in {"ensure", "commit"} /\ place \in Places
        /\ (place = "ensure" => asked.tenant \in Tenants)
    BY <1>2 DEF Places
  <2> HIDE DEF record, place
  <2>7. stage'[r] = place /\ req'[r] = record
    BY <2>5, Known
  <2>8. Ids = 1 .. Len(token) /\ Ids' = 1 .. Len(token) + 1 /\ Len(token) \in Nat
    BY <2>3, Known, LenProperties DEF Ids
  <2>9. WellFormed(r)'
    BY <1>1, <1>2, <2>3, <2>4, <2>6, <2>7, <2>8, Known DEF WellFormed
  <2>10. /\ place \in Places /\ record \in Request
         /\ made' \in Nat /\ token' \in Seq(TokenRow) /\ Len(token) <= Len(token')
         /\ UNCHANGED <<time, rows, link, hist>>
    BY <1>1, <2>3, <2>4, <2>6, Known
  <2> QED  BY <2>5, <2>9, <2>10, RequestKeepsTypes, Zenon
<1> QED  BY <1>3, <1>4, Zenon DEF Create

(* A step that writes nothing the others see.                              *)
LEMMA SilentKeepsTypes ==
    ASSUME TypeInv, NEW r \in Handlers, NEW place \in Places, NEW record \in Request,
           Goto(r, place), req' = [req EXCEPT ![r] = record],
           made' \in Nat, UNCHANGED <<time, db, hist>>,
           stage'[r] = place /\ req'[r] = record /\ Ids' = Ids => WellFormed(r)'
    PROVE  TypeInv'
<1>1. /\ stage' = [stage EXCEPT ![r] = place] /\ UNCHANGED <<time, rows, link, hist>>
      /\ token' \in Seq(TokenRow) /\ Len(token) <= Len(token')
      /\ stage'[r] = place /\ req'[r] = record /\ Ids' = Ids
  BY Known DEF Goto, db, Ids
<1>2. WellFormed(r)'
  BY <1>1
<1> QED  BY <1>1, <1>2, RequestKeepsTypes, Zenon

(* A revocation marks a token that is there.                               *)
LEMMA RevokeKeepsTypes ==
    ASSUME TypeInv, NEW r \in Handlers, Revoke(r)
    PROVE  TypeInv'
<1> DEFINE record == [req[r] EXCEPT !.at = time]
<1>1. /\ UNCHANGED <<time, db, made, hist>>
      /\ stage[r] = "run" /\ req[r].asked.kind = "revoke"
  BY DEF Revoke
<1>2. CASE Over(r)
  BY <1>1, <1>2, Known, OverKeepsTypes DEF hist, db, Ids
<1>3. CASE Goto(r, "commit") /\ req' = [req EXCEPT ![r].at = time]
  <2>1. req[r] \in Request /\ time \in Nat
    BY Known
  <2>2. /\ record \in Request /\ record.asked = req[r].asked /\ record.user = req[r].user
        /\ record.new = req[r].new /\ record.purged = req[r].purged
        /\ record.link = req[r].link /\ record.own = req[r].own
    BY <2>1 DEF Request
  <2>3. req' = [req EXCEPT ![r] = record]
    BY <1>3
  <2> HIDE DEF record
  <2>4. ASSUME stage'[r] = "commit", req'[r] = record, Ids' = Ids
        PROVE  WellFormed(r)'
    BY <1>1, <2>2, <2>4, Known DEF WellFormed, db
  <2>5. "commit" \in Places /\ made' \in Nat /\ UNCHANGED <<time, db, hist>>
    BY <1>1, Known DEF Places
  <2> QED  BY <1>3, <2>2, <2>3, <2>4, <2>5, SilentKeepsTypes, Zenon
<1> QED  BY <1>2, <1>3, Zenon DEF Revoke

(* A purge takes rows out of the table, and their ids stay taken.          *)
LEMMA PurgeKeepsTypes ==
    ASSUME TypeInv, NEW r \in Handlers, Purge(r)
    PROVE  TypeInv'
<1> DEFINE gone == {k \in rows : Inactive(token[k], time, time - req[r].asked.age)}
           record == [req[r] EXCEPT !.purged = gone]
<1>1. /\ UNCHANGED <<time, db, made, hist>>
      /\ stage[r] = "run" /\ req[r].asked.kind = "purge"
      /\ Goto(r, "commit") /\ req' = [req EXCEPT ![r].purged = gone]
  BY DEF Purge
<1>2. gone \in SUBSET Nat /\ gone \subseteq Ids /\ req[r] \in Request
  BY Known
<1> HIDE DEF gone
<1>3. /\ record \in Request /\ record.asked = req[r].asked /\ record.user = req[r].user
      /\ record.new = req[r].new /\ record.purged = gone
      /\ record.link = req[r].link /\ record.own = req[r].own
  BY <1>2 DEF Request
<1>4. req' = [req EXCEPT ![r] = record]
  BY <1>1
<1> HIDE DEF record
<1>5. ASSUME stage'[r] = "commit", req'[r] = record, Ids' = Ids
      PROVE  WellFormed(r)'
  BY <1>1, <1>2, <1>3, <1>5, Known DEF WellFormed, db
<1>6. "commit" \in Places /\ made' \in Nat /\ UNCHANGED <<time, db, hist>>
  BY <1>1, Known DEF Places
<1> QED  BY <1>1, <1>3, <1>4, <1>5, <1>6, SilentKeepsTypes, Zenon

(* The steps at a tenant's link: what changes is link, own and made.       *)
LEMMA LinkStepKeepsTypes ==
    ASSUME TypeInv, NEW r \in Handlers, stage[r] # "idle",
           NEW place \in {"commit", "insert", "read"},
           NEW ids \in SUBSET Nat, NEW own \in SUBSET Nat,
           req' = [req EXCEPT ![r].link = ids, ![r].own = own], Goto(r, place),
           made' \in Nat, UNCHANGED <<time, db, hist>>,
           req[r].asked.kind \in {"create", "link", "replace"}, req[r].asked.tenant \in Tenants,
           place # "commit" => req[r].asked.kind \in {"create", "link"},
           req[r].asked.kind = "create" => req[r].new # 0
    PROVE  TypeInv'
<1> DEFINE record == [req[r] EXCEPT !.link = ids, !.own = own]
<1>1. req[r] \in Request
  BY Known
<1>2. /\ record \in Request /\ record.asked = req[r].asked /\ record.user = req[r].user
      /\ record.new = req[r].new /\ record.purged = req[r].purged
      /\ record.link = ids /\ record.own = own
  BY <1>1 DEF Request
<1>3. req' = [req EXCEPT ![r] = record]
  BY Known
<1> HIDE DEF record
<1>4. ASSUME stage'[r] = place, req'[r] = record, Ids' = Ids
      PROVE  WellFormed(r)'
  BY <1>2, <1>4, Known DEF WellFormed, db
<1>5. place \in Places
  BY DEF Places
<1> QED  BY <1>2, <1>3, <1>4, <1>5, SilentKeepsTypes, Zenon

(* Who is at a tenant's link, by place.                                    *)
LEMMA AtLink ==
    ASSUME TypeInv, NEW r \in Handlers,
           \/ stage[r] \in {"ensure", "insert", "read"}
           \/ stage[r] = "run" /\ req[r].asked.kind \in {"link", "replace"}
    PROVE  /\ req[r].asked.kind \in {"create", "link", "replace"}
           /\ req[r].asked.tenant \in Tenants
           /\ stage[r] \in {"ensure", "insert", "read"} => req[r].asked.kind \in {"create", "link"}
           /\ req[r].asked.kind = "create" => req[r].new # 0
           /\ req[r].link \in SUBSET Nat /\ req[r].own \in SUBSET Nat
           /\ link[req[r].asked.tenant] \in SUBSET Nat
           /\ req = [req EXCEPT ![r] = req[r]]
<1>1. /\ req[r] \in Request /\ WellFormed(r) /\ link \in [Tenants -> SUBSET Nat]
      /\ (stage[r] # "idle" => req[r].asked \in Asked) /\ req \in [Handlers -> Request]
  BY Known
<1>2. req[r].asked.kind \in {"link", "replace"} /\ stage[r] # "idle" =>
        req[r].asked.tenant \in Tenants
  BY <1>1, AskedShape
<1>3. /\ req[r].asked.kind \in {"create", "link", "replace"}
      /\ req[r].asked.tenant \in Tenants
      /\ stage[r] \in {"ensure", "insert", "read"} => req[r].asked.kind \in {"create", "link"}
      /\ req[r].asked.kind = "create" => req[r].new # 0
  BY <1>1, <1>2 DEF WellFormed
<1>4. req[r].link \in SUBSET Nat /\ req[r].own \in SUBSET Nat
  BY <1>1 DEF Request
<1> QED  BY <1>1, <1>3, <1>4

(* The link that is there is read.                                         *)
LEMMA EnsureReadKeepsTypes ==
    ASSUME TypeInv, NEW r \in Handlers, EnsureRead(r)
    PROVE  TypeInv'
<1> DEFINE ids == link[req[r].asked.tenant]
           place == IF ids # {} THEN "commit" ELSE "insert"
<1>1. /\ UNCHANGED <<time, db, made, hist>>
      /\ stage[r] = "ensure" \/ (stage[r] = "run" /\ req[r].asked.kind = "link")
      /\ req' = [req EXCEPT ![r].link = ids] /\ Goto(r, place)
  BY DEF EnsureRead
<1>2. /\ req[r].asked.kind \in {"create", "link"} /\ req[r].asked.tenant \in Tenants
      /\ req[r].asked.kind = "create" => req[r].new # 0
      /\ ids \in SUBSET Nat /\ req[r].own \in SUBSET Nat
  BY <1>1, AtLink
<1>3. req[r] \in Request /\ made \in Nat
  BY Known
<1>4. req' = [req EXCEPT ![r].link = ids, ![r].own = req[r].own]
  BY <1>1, <1>3, Known DEF Request
<1>5. place \in {"commit", "insert", "read"} /\ stage[r] # "idle" /\ made' \in Nat
      /\ UNCHANGED <<time, db, hist>>
  BY <1>1, <1>3
<1> HIDE DEF ids, place
<1>6. /\ req[r].asked.kind \in {"create", "link", "replace"}
      /\ place # "commit" => req[r].asked.kind \in {"create", "link"}
      /\ Goto(r, place)
  BY <1>1, <1>2
<1> QED  BY <1>2, <1>4, <1>5, <1>6, LinkStepKeepsTypes, Zenon

(* A new id is inserted, or conflicts.                                     *)
LEMMA EnsureInsertKeepsTypes ==
    ASSUME TypeInv, NEW r \in Handlers, EnsureInsert(r)
    PROVE  TypeInv'
<1> DEFINE own == IF link[req[r].asked.tenant] = {} THEN {made + 1} ELSE {}
<1>1. /\ UNCHANGED <<time, db, hist>> /\ stage[r] = "insert" /\ made' = made + 1
      /\ req' = [req EXCEPT ![r].link = {made + 1}, ![r].own = own] /\ Goto(r, "read")
  BY DEF EnsureInsert
<1>2. /\ {made + 1} \in SUBSET Nat /\ own \in SUBSET Nat /\ made' \in Nat
      /\ stage[r] # "idle"
  BY <1>1, Known
<1> HIDE DEF own
<1> QED  BY <1>1, <1>2, AtLink, LinkStepKeepsTypes

(* What another request inserted is read.                                  *)
LEMMA EnsureReReadKeepsTypes ==
    ASSUME TypeInv, NEW r \in Handlers, EnsureReRead(r)
    PROVE  TypeInv'
<1>1. /\ UNCHANGED <<time, db, made, hist>> /\ stage[r] = "read"
      /\ req' = [req EXCEPT ![r].link = ReRead(r)] /\ Goto(r, "commit")
  BY DEF EnsureReRead
<1>2. /\ ReRead(r) \in SUBSET Nat /\ req[r].own \in SUBSET Nat /\ made' \in Nat
      /\ stage[r] # "idle" /\ UNCHANGED <<time, db, hist>>
  BY <1>1, AtLink, Known DEF ReRead
<1>3. req' = [req EXCEPT ![r].link = ReRead(r), ![r].own = req[r].own]
  BY <1>1, Known DEF Request
<1> QED  BY <1>1, <1>2, <1>3, AtLink, LinkStepKeepsTypes

(* A link that cannot be made is left out of the answer.                   *)
LEMMA LinkFailsKeepsTypes ==
    ASSUME TypeInv, NEW r \in Handlers, LinkFails(r)
    PROVE  TypeInv'
<1>1. /\ UNCHANGED <<time, db, made, hist>> /\ stage[r] \in {"ensure", "insert", "read"}
      /\ req' = [req EXCEPT ![r].link = {}, ![r].own = {}] /\ Goto(r, "commit")
  BY DEF LinkFails
<1>2. {} \in SUBSET Nat /\ made' \in Nat /\ stage[r] # "idle" /\ UNCHANGED <<time, db, hist>>
  BY <1>1, Known
<1> QED  BY <1>1, <1>2, AtLink, LinkStepKeepsTypes

(* A replacement has a new id.                                             *)
LEMMA ReplaceKeepsTypes ==
    ASSUME TypeInv, NEW r \in Handlers, Replace(r)
    PROVE  TypeInv'
<1>1. /\ UNCHANGED <<time, db, hist>> /\ made' = made + 1
      /\ stage[r] = "run" /\ req[r].asked.kind = "replace"
      /\ req' = [req EXCEPT ![r].link = {made + 1}, ![r].own = {made + 1}]
      /\ Goto(r, "commit")
  BY DEF Replace
<1>2. {made + 1} \in SUBSET Nat /\ made' \in Nat /\ stage[r] # "idle"
  BY <1>1, Known
<1> QED  BY <1>1, <1>2, AtLink, LinkStepKeepsTypes

(* The tenant of a link is looked up.                                      *)
LEMMA ReadLinkKeepsTypes ==
    ASSUME TypeInv, NEW r \in Handlers, ReadLink(r)
    PROVE  TypeInv'
<1> DEFINE tenants == tenant_for(req[r].asked.link)
           record == [req[r] EXCEPT !.tenant = tenants]
<1>1. /\ UNCHANGED <<time, db, made, hist>>
      /\ stage[r] = "run" /\ req[r].asked.kind = "status"
      /\ Goto(r, "page") /\ req' = [req EXCEPT ![r].tenant = tenants]
  BY DEF ReadLink
<1>2. tenants \in SUBSET Tenants /\ req[r] \in Request
  BY Known DEF tenant_for
<1> HIDE DEF tenants
<1>3. /\ record \in Request /\ record.asked = req[r].asked /\ record.user = req[r].user
      /\ record.new = req[r].new /\ record.purged = req[r].purged
      /\ record.link = req[r].link /\ record.own = req[r].own
  BY <1>2 DEF Request
<1>4. req' = [req EXCEPT ![r] = record]
  BY <1>1
<1> HIDE DEF record
<1>5. ASSUME stage'[r] = "page", req'[r] = record, Ids' = Ids
      PROVE  WellFormed(r)'
  BY <1>1, <1>2, <1>3, <1>5, Known DEF WellFormed, db
<1>6. "page" \in Places /\ made' \in Nat /\ UNCHANGED <<time, db, hist>>
  BY <1>1, Known DEF Places
<1> QED  BY <1>1, <1>3, <1>4, <1>5, <1>6, SilentKeepsTypes, Zenon

(* What a transaction wrote.                                               *)
LEMMA WrittenTyped ==
    ASSUME TypeInv, NEW r \in Handlers, stage[r] = "commit", Written(r)
    PROVE  /\ token' \in Seq(TokenRow) /\ Len(token') = Len(token) /\ Ids' = Ids
           /\ rows' \subseteq Ids
           /\ link' \in [Tenants -> SUBSET Nat] /\ replaced' \in [Tenants -> Nat]
<1> DEFINE asked == req[r].asked
           k == asked.id
           row == [token[k] EXCEPT !.revoked = {req[r].at}]
<1>1. /\ req[r] \in Request /\ WellFormed(r) /\ asked \in Asked
      /\ token \in Seq(TokenRow) /\ Ids = 1 .. Len(token) /\ Len(token) \in Nat
      /\ link \in [Tenants -> SUBSET Nat] /\ replaced \in [Tenants -> Nat]
      /\ rows \subseteq Ids
  BY Known
<1>2. asked.kind = "replace" => asked.tenant \in Tenants
  BY <1>1, AskedShape
<1>3. token' \in Seq(TokenRow) /\ Len(token') = Len(token)
  <2>1. CASE UNCHANGED token
    BY <2>1, <1>1
  <2>2. CASE asked.kind = "revoke" /\ token' = [token EXCEPT ![k].revoked = {req[r].at}]
    <3>1. k \in 1 .. Len(token) /\ req[r].at \in Nat
      BY <1>1, <2>2 DEF WellFormed, Request
    <3>2. token[k] \in TokenRow
      BY <1>1, <3>1, ElementOfSeq
    <3>3. row \in TokenRow
      BY <3>1, <3>2 DEF TokenRow
    <3>4. token' = [token EXCEPT ![k] = row]
      BY <2>2
    <3> HIDE DEF row, k
    <3> QED  BY <1>1, <3>1, <3>3, <3>4, ExceptSeq
  <2> QED  BY <2>1, <2>2, Zenon DEF Written
<1>4. Ids' = Ids
  BY <1>1, <1>3, LenProperties DEF Ids
<1>5. rows' \subseteq Ids
  <2>1. req[r].new \in 0 .. Len(token)
    BY <1>1 DEF WellFormed
  <2> QED  BY <1>1, <2>1 DEF Written
<1>6. link' \in [Tenants -> SUBSET Nat]
  <2>1. req[r].own \in SUBSET Nat
    BY <1>1 DEF Request
  <2> QED  BY <1>1, <2>1 DEF Written
<1>7. replaced' \in [Tenants -> Nat]
  BY <1>1, <1>2 DEF Written
<1> QED  BY <1>3, <1>4, <1>5, <1>6, <1>7

(* A commit writes what the request wrote, or fails.                       *)
LEMMA CommitKeepsTypes ==
    ASSUME TypeInv, NEW r \in Handlers, NEW ok \in BOOLEAN, Commit(r, ok)
    PROVE  TypeInv'
<1>1. /\ UNCHANGED <<time, made, shown, revokedTold, linkTold, closedTold>>
      /\ stage[r] = "commit" /\ (Written(r) \/ UNCHANGED <<db, replaced>>)
  BY DEF Commit
<1>2. /\ token' \in Seq(TokenRow) /\ Len(token') = Len(token) /\ Ids' = Ids
      /\ rows' \subseteq Ids
      /\ link' \in [Tenants -> SUBSET Nat] /\ replaced' \in [Tenants -> Nat]
  <2>1. CASE Written(r)
    BY <1>1, <2>1, WrittenTyped
  <2>2. CASE UNCHANGED <<db, replaced>>
    BY <2>2, Known DEF db, Ids
  <2> QED  BY <1>1, <2>1, <2>2
<1>3. /\ time' \in Nat /\ made' \in Nat /\ Len(token) <= Len(token') /\ rows' \subseteq Ids'
      /\ shown' \subseteq Ids' /\ revokedTold' \subseteq Ids'
      /\ linkTold' \subseteq Answer /\ closedTold' \subseteq Nat
      /\ token' \in Seq(TokenRow)
      /\ link' \in [Tenants -> SUBSET Nat] /\ replaced' \in [Tenants -> Nat]
  BY <1>1, <1>2, Known
<1>4. CASE Over(r)
  BY <1>3, <1>4, OverKeepsTypes
<1>5. CASE /\ Goto(r, "send")
           /\ req' = IF req[r].asked.kind = "replace"
                     THEN [req EXCEPT ![r].closed = link[req[r].asked.tenant]] ELSE req
  <2> DEFINE closed == IF req[r].asked.kind = "replace"
                       THEN link[req[r].asked.tenant] ELSE req[r].closed
             record == [req[r] EXCEPT !.closed = closed]
  <2>1. req[r] \in Request /\ WellFormed(r) /\ req[r].asked \in Asked
        /\ link \in [Tenants -> SUBSET Nat] /\ req \in [Handlers -> Request]
    BY <1>1, Known
  <2>2. closed \in SUBSET Nat
    BY <2>1, AskedShape DEF Request
  <2>3. req' = [req EXCEPT ![r] = record]
    <3>1. CASE req[r].asked.kind = "replace"
      BY <1>5, <3>1
    <3>2. CASE req[r].asked.kind # "replace"
      <4>1. record = req[r]
        BY <2>1, <3>2 DEF Request
      <4> QED  BY <1>5, <2>1, <3>2, <4>1
    <3> QED  BY <3>1, <3>2
  <2> HIDE DEF closed
  <2>4. /\ record \in Request /\ record.asked = req[r].asked /\ record.user = req[r].user
        /\ record.new = req[r].new /\ record.purged = req[r].purged
        /\ record.link = req[r].link /\ record.own = req[r].own
    BY <2>1, <2>2 DEF Request
  <2> HIDE DEF record
  <2>5. stage' = [stage EXCEPT ![r] = "send"] /\ stage'[r] = "send" /\ req'[r] = record
        /\ "send" \in Places
    BY <1>5, <2>1, <2>3, Known DEF Goto, Places
  <2>6. WellFormed(r)'
    BY <1>1, <1>2, <2>1, <2>4, <2>5, Known DEF WellFormed
  <2> QED  BY <1>3, <2>3, <2>4, <2>5, <2>6, StepKeepsTypes, Zenon
<1> QED  BY <1>4, <1>5 DEF Commit

(* An answer tells what was committed.                                     *)
LEMMA SendKeepsTypes ==
    ASSUME TypeInv, NEW r \in Handlers, Send(r)
    PROVE  TypeInv'
<1> DEFINE asked == req[r].asked
           answers == IF asked.kind \in {"link", "create"}
                      THEN {[tenant |-> asked.tenant, id |-> id, before |-> req[r].before] :
                              id \in req[r].link} ELSE {}
<1>1. /\ UNCHANGED <<time, db, made, replaced>> /\ stage[r] = "send" /\ Over(r)
      /\ shown' = shown \cup (IF asked.kind = "create" THEN {req[r].new} ELSE {})
      /\ revokedTold' = revokedTold
           \cup (IF asked.kind = "revoke" THEN {k \in Ids : k = asked.id} ELSE {})
      /\ linkTold' = linkTold \cup answers
      /\ closedTold' = closedTold \cup (IF asked.kind = "replace" THEN req[r].closed ELSE {})
  BY DEF Send
<1>2. req[r] \in Request /\ WellFormed(r)
  BY Known
<1>3. answers \subseteq Answer
  <2>1. req[r].before \in Nat /\ req[r].link \subseteq Nat
    BY <1>2 DEF Request
  <2>2. req[r].link # {} => asked.tenant \in Tenants
    BY <1>2 DEF WellFormed
  <2> QED  BY <2>1, <2>2 DEF Answer
<1>4. asked.kind = "create" => req[r].new \in Ids
  BY <1>1, <1>2, Known DEF WellFormed
<1>5. req[r].closed \in SUBSET Nat
  BY <1>2 DEF Request
<1> HIDE DEF answers
<1>6. /\ time' \in Nat /\ made' \in Nat /\ Len(token) <= Len(token') /\ rows' \subseteq Ids'
      /\ token' \in Seq(TokenRow)
      /\ link' \in [Tenants -> SUBSET Nat] /\ replaced' \in [Tenants -> Nat]
  BY <1>1, Known DEF db, Ids
<1>7. /\ shown' \subseteq Ids' /\ revokedTold' \subseteq Ids'
      /\ linkTold' \subseteq Answer /\ closedTold' \subseteq Nat
  BY <1>1, <1>3, <1>4, <1>5, Known DEF db, Ids
<1> QED  BY <1>1, <1>6, <1>7, OverKeepsTypes

(* A page is shown or refused.                                             *)
LEMMA PageKeepsTypes ==
    ASSUME TypeInv, NEW r \in Handlers, Page(r)
    PROVE  TypeInv'
<1>1. UNCHANGED <<time, db, made, hist>> /\ Over(r)
  BY DEF Page
<1> QED  BY <1>1, Known, OverKeepsTypes DEF hist, db, Ids

(* The clock, the settings and a stutter.                                  *)
LEMMA RestKeepsTypes ==
    ASSUME TypeInv, UNCHANGED <<token, rows, link, made, stage, req, hist>>,
           time' \in Nat
    PROVE  TypeInv'
  BY DEF TypeInv, TypeOK, AllWellFormed, WellFormed, hist, Ids

(* Initially there is nothing but idle requests.                           *)
LEMMA InitTypes == AccessInit => TypeInv
<1> SUFFICES ASSUME AccessInit PROVE TypeInv
  OBVIOUS
<1>1. token \in Seq(TokenRow) /\ Len(token) = 0
  BY EmptySeq DEF AccessInit
<1>2. TypeOK
  BY <1>1, NothingTyped DEF AccessInit, TypeOK, Places, Ids
<1>3. AllWellFormed
  BY <1>1, NothingTyped DEF AccessInit, AllWellFormed, WellFormed
<1> QED  BY <1>2, <1>3 DEF TypeInv

(* Every step keeps the types.                                             *)
LEMMA NextKeepsTypes == TypeInv /\ [AccessNext]_accessVars => TypeInv'
<1> SUFFICES ASSUME TypeInv, [AccessNext]_accessVars PROVE TypeInv'
  OBVIOUS
<1>1. CASE Tick
  <2>1. time \in Nat
    BY DEF TypeInv, TypeOK
  <2> QED  BY <1>1, <2>1, RestKeepsTypes DEF Tick, db
<1>2. ASSUME NEW r \in Handlers, NEW who \in Callers, NEW asked \in Asked,
             Begin(r, who, asked)
      PROVE  TypeInv'
  BY <1>2, BeginKeepsTypes
<1>3. ASSUME NEW r \in Handlers, Step(r)
      PROVE  TypeInv'
  BY <1>3, TouchKeepsTypes, CreateKeepsTypes, RevokeKeepsTypes, PurgeKeepsTypes,
     ReplaceKeepsTypes, EnsureReadKeepsTypes, EnsureInsertKeepsTypes, EnsureReReadKeepsTypes,
     LinkFailsKeepsTypes, ReadLinkKeepsTypes, PageKeepsTypes, SendKeepsTypes, CommitKeepsTypes
  DEF Step
<1>4. CASE UNCHANGED accessVars
  <2>1. time \in Nat
    BY DEF TypeInv, TypeOK
  <2> QED  BY <1>4, <2>1, RestKeepsTypes DEF accessVars, db
<1> QED  BY <1>1, <1>2, <1>3, <1>4 DEF AccessNext

(* Every request, token and link is of the right shape, and has of its own
   at each place what that place needs. *)
THEOREM TypesKept == AccessSpec => []TypeInv
<1> QED  BY InitTypes, NextKeepsTypes, PTL DEF AccessSpec

-----------------------------------------------------------------------------
(* Tokens.                                                                 *)

(* Who writes api_tokens.                                                  *)
LEMMA TokenSteps ==
    ASSUME [AccessNext]_accessVars
    PROVE  \/ UNCHANGED token
           \/ \E r \in Handlers : Touch(r) \/ Create(r)
                                  \/ (stage[r] = "commit" /\ Written(r))
<1>1. CASE Tick \/ UNCHANGED accessVars
  BY <1>1 DEF Tick, accessVars, db
<1>2. ASSUME NEW r \in Handlers, NEW who \in Callers, NEW asked \in Asked,
             Begin(r, who, asked)
      PROVE  UNCHANGED token
  BY <1>2 DEF Begin, db
<1>3. ASSUME NEW r \in Handlers, Step(r)
      PROVE  \/ UNCHANGED token
             \/ Touch(r) \/ Create(r) \/ (stage[r] = "commit" /\ Written(r))
  <2>1. CASE \E ok \in BOOLEAN : Commit(r, ok)
    BY <2>1 DEF Commit, db
  <2>2. CASE Revoke(r) \/ Purge(r) \/ Replace(r)
    BY <2>2 DEF Revoke, Purge, Replace, db
  <2>3. CASE EnsureRead(r) \/ EnsureInsert(r) \/ EnsureReRead(r) \/ LinkFails(r)
    BY <2>3 DEF EnsureRead, EnsureInsert, EnsureReRead, LinkFails, db
  <2>4. CASE ReadLink(r) \/ Page(r) \/ Send(r)
    BY <2>4 DEF ReadLink, Page, Send, db
  <2> QED  BY <1>3, <2>1, <2>2, <2>3, <2>4 DEF Step
<1> QED  BY <1>1, <1>2, <1>3 DEF AccessNext

(* No step takes back a revocation or moves an expiry, and only a touch
   writes a last use, of a token that is stale. *)
LEMMA TokensGrow ==
    ASSUME TypeInv, [AccessNext]_accessVars, NEW k \in Ids
    PROVE  /\ k \in Ids'
           /\ token'[k].expires = token[k].expires
           /\ token[k].revoked # {} => token'[k].revoked # {}
           /\ \/ token'[k].used = token[k].used
              \/ \E at \in Nat : token'[k].used = {at} /\ Stale(k, at)
<1>1. /\ token \in Seq(TokenRow) /\ Ids = 1 .. Len(token) /\ Len(token) \in Nat
      /\ token[k] \in TokenRow
  <2>1. token \in Seq(TokenRow)
    BY DEF TypeInv, TypeOK
  <2>2. Ids = 1 .. Len(token) /\ Len(token) \in Nat
    BY <2>1, LenProperties DEF Ids
  <2> QED  BY <2>1, <2>2, ElementOfSeq
<1>2. CASE UNCHANGED token
  BY <1>2 DEF Ids
<1>3. ASSUME NEW r \in Handlers, Touch(r)
      PROVE  /\ k \in Ids'
             /\ token'[k].expires = token[k].expires
             /\ token'[k].revoked = token[k].revoked
             /\ \/ token'[k].used = token[k].used
                \/ \E at \in Nat : token'[k].used = {at} /\ Stale(k, at)
  <2> DEFINE j == req[r].user.token
             at == req[r].at
  <2>1. at \in Nat
    BY Known DEF Request
  <2>2. CASE UNCHANGED token
    BY <2>2 DEF Ids
  <2>3. CASE TouchDue(j, at) /\ token' = [token EXCEPT ![j].used = {at}]
    <3>1. j \in rows /\ Stale(j, at) /\ Ids' = Ids
      BY <2>3 DEF TouchDue, Ids
    <3>2. CASE k = j
      <4>1. token'[k] = [token[k] EXCEPT !.used = {at}]
        BY <2>3, <3>2 DEF Ids
      <4>2. /\ token'[k].used = {at} /\ token'[k].expires = token[k].expires
            /\ token'[k].revoked = token[k].revoked
        <5> HIDE DEF at
        <5> QED  BY <1>1, <4>1 DEF TokenRow
      <4> QED  BY <2>1, <3>1, <3>2, <4>2
    <3>3. CASE k # j
      BY <2>3, <3>1, <3>3 DEF Ids
    <3> QED  BY <3>2, <3>3
  <2> QED  BY <1>3, <2>2, <2>3 DEF Touch
<1>4. ASSUME NEW r \in Handlers, Create(r)
      PROVE  k \in Ids' /\ token'[k] = token[k]
  <2> DEFINE row == [name |-> req[r].asked.name, role |-> req[r].asked.role,
                     tenant |-> req[r].asked.tenant, used |-> {}, revoked |-> {},
                     expires |-> {time + d : d \in req[r].asked.days}]
  <2>1. UNCHANGED token \/ token' = Append(token, row)
    BY <1>4 DEF Create
  <2> HIDE DEF row
  <2>2. CASE token' = Append(token, row)
    <3> DEFINE S == TokenRow \cup {row}
    <3>1. /\ token \in Seq(S) /\ row \in S
      <4>1. \A i \in 1 .. Len(token) : token[i] \in S
        BY <1>1, ElementOfSeq
      <4>2. token \in [1 .. Len(token) -> S]
        BY <1>1, <4>1, LenProperties
      <4> QED  BY <1>1, <4>2
    <3> HIDE DEF S
    <3>2. /\ Len(token') = Len(token) + 1 /\ token' \in Seq(S)
          /\ \A i \in 1 .. Len(token) : token'[i] = token[i]
      BY <2>2, <3>1, AppendProperties
    <3>3. Ids' = 1 .. Len(token) + 1
      BY <3>2, LenProperties DEF Ids
    <3> QED  BY <1>1, <3>2, <3>3
  <2> QED  BY <2>1, <2>2 DEF Ids
<1>5. ASSUME NEW r \in Handlers, stage[r] = "commit", Written(r)
      PROVE  /\ k \in Ids' /\ token'[k].expires = token[k].expires
             /\ token'[k].used = token[k].used
             /\ token[k].revoked # {} => token'[k].revoked # {}
  <2> DEFINE j == req[r].asked.id
  <2>1. CASE UNCHANGED token
    BY <2>1 DEF Ids
  <2>2. CASE token' = [token EXCEPT ![j].revoked = {req[r].at}]
    <3>1. Ids' = Ids
      BY <2>2 DEF Ids
    <3>2. CASE k = j
      <4>1. token'[k] = [token[k] EXCEPT !.revoked = {req[r].at}]
        BY <2>2, <3>2 DEF Ids
      <4>2. /\ token'[k].revoked = {req[r].at} /\ token'[k].expires = token[k].expires
            /\ token'[k].used = token[k].used
        BY <1>1, <4>1 DEF TokenRow
      <4> QED  BY <3>1, <4>2
    <3>3. CASE k # j
      BY <2>2, <3>1, <3>3 DEF Ids
    <3> QED  BY <3>2, <3>3
  <2> QED  BY <1>5, <2>1, <2>2 DEF Written
<1> QED  BY <1>2, <1>3, <1>4, <1>5, TokenSteps

(* The clock only moves forward.                                           *)
LEMMA ClockMoves ==
    ASSUME TypeInv, [AccessNext]_accessVars
    PROVE  time' \in Nat /\ time <= time'
<1>0. time \in Nat
  BY DEF TypeInv, TypeOK
<1>1. time' = time \/ time' = time + 1
  BY DEF AccessNext, accessVars, Tick, Begin, Step, Touch, Create, Revoke, Purge, Replace, EnsureRead,
         EnsureInsert, EnsureReRead, LinkFails, ReadLink, Page, Send, Commit
<1> QED  BY <1>0, <1>1

(* A token has stopped working when it is revoked or its time is over.     *)
LEMMA DeadIs ==
    ASSUME NEW k
    PROVE  Dead(k) <=> token[k].revoked # {} \/ \E e \in token[k].expires : e <= time
  BY DEF Dead, state

(* A token that has stopped working never works again.                     *)
LEMMA DeadForGood ==
    ASSUME TypeInv, [AccessNext]_accessVars, NEW k \in Ids, Dead(k)
    PROVE  Dead(k)'
<1>1. /\ token'[k].expires = token[k].expires
      /\ token[k].revoked # {} => token'[k].revoked # {}
  BY TokensGrow
<1>2. time \in Nat /\ time' \in Nat /\ time <= time'
  BY ClockMoves DEF TypeInv, TypeOK
<1>3. \A e \in token[k].expires : e \in Nat
  <2>1. token[k] \in TokenRow
    BY ElementOfSeq, LenProperties DEF TypeInv, TypeOK, Ids
  <2> QED  BY <2>1 DEF TokenRow
<1>4. Dead(k)' <=> token'[k].revoked # {} \/ \E e \in token'[k].expires : e <= time'
  BY DEF Dead, state
<1> QED  BY <1>1, <1>2, <1>3, <1>4, DeadIs

(* "Of requests that all saw it stale, one writes": a token's last use is
   written at most once in the interval, and only moves forward. *)
THEOREM TouchedOnce == AccessSpec => UsedOnce
<1>1. ASSUME TypeInv, [AccessNext]_accessVars, NEW k \in Ids, token'[k].used # token[k].used
      PROVE  \A u \in token[k].used, v \in token'[k].used : v - u > Interval
  <2>1. PICK at \in Nat : token'[k].used = {at} /\ Stale(k, at)
    BY <1>1, TokensGrow
  <2>2. token[k].used \subseteq Nat
    <3>1. token[k] \in TokenRow
      BY <1>1, ElementOfSeq, LenProperties DEF TypeInv, TypeOK, Ids
    <3> QED  BY <3>1 DEF TokenRow
  <2> QED  BY <2>1, <2>2, AccessAssumption DEF Stale, AccessAssumption
<1>2. TypeInv /\ [AccessNext]_accessVars =>
        [\A k \in Ids : token'[k].used # token[k].used =>
           \A u \in token[k].used, v \in token'[k].used : v - u > Interval]_accessVars
  BY <1>1
<1> QED  BY <1>2, TypesKept, PTL DEF AccessSpec, UsedOnce

(* How a request goes on, as far as tokens are concerned.                  *)
LEMMA RequestSteps ==
    ASSUME TypeInv, [AccessNext]_accessVars, NEW r \in Handlers
    PROVE  \/ stage'[r] = stage[r] /\ req'[r] = req[r]
           \/ stage'[r] # "send" /\ req'[r].purged \in {req[r].purged, {}}
           \/ stage'[r] # "send" /\ Purge(r)
                /\ \A k \in req'[r].purged : Inactive(token[k], time, time - req[r].asked.age)
           \/ /\ stage[r] = "commit" /\ stage'[r] = "send" /\ Written(r)
              /\ req'[r].asked = req[r].asked /\ req'[r].new = req[r].new
              /\ req'[r].purged = req[r].purged
<1>0. /\ stage \in [Handlers -> Places] /\ req \in [Handlers -> Request]
      /\ req[r] \in Request /\ Nothing.purged = {}
  BY Known, NothingTyped
<1>1. CASE Tick \/ UNCHANGED accessVars
  BY <1>1 DEF Tick, accessVars
<1>2. ASSUME NEW q \in Handlers, NEW who \in Callers, NEW asked \in Asked,
             Begin(q, who, asked)
      PROVE  \/ stage'[r] = stage[r] /\ req'[r] = req[r]
             \/ stage'[r] # "send" /\ req'[r].purged \in {req[r].purged, {}}
  <2> DEFINE user == resolve_user(who)
             before == IF asked.kind \in {"link", "create"} /\ asked.tenant # Nobody
                       THEN replaced[asked.tenant] ELSE 0
             record == [Nothing EXCEPT !.asked = asked, !.user = user, !.at = time,
                          !.closed = closedTold, !.before = before]
  <2>1. PICK place \in {"touch", "run"} :
             stage' = [stage EXCEPT ![q] = place] /\ req' = [req EXCEPT ![q] = record]
    BY <1>2, Zenon DEF Begin, Goto
  <2>2. record.purged = {}
    <3> HIDE DEF user, before
    <3> QED  BY DEF Nothing
  <2> HIDE DEF record
  <2> QED  BY <1>0, <2>1, <2>2
<1>3. ASSUME NEW q \in Handlers, Over(q)
      PROVE  \/ stage'[r] = stage[r] /\ req'[r] = req[r]
             \/ stage'[r] # "send" /\ req'[r].purged \in {req[r].purged, {}}
  BY <1>0, <1>3 DEF Over, Goto
<1>4. ASSUME NEW q \in Handlers, NEW place, place # "send", Goto(q, place), UNCHANGED req
      PROVE  \/ stage'[r] = stage[r] /\ req'[r] = req[r]
             \/ stage'[r] # "send" /\ req'[r].purged \in {req[r].purged, {}}
  BY <1>0, <1>4 DEF Goto
<1>5. ASSUME NEW q \in Handlers, NEW place, place # "send", Goto(q, place),
             NEW at, NEW new, NEW ids, NEW own, NEW tenants,
             \/ req' = [req EXCEPT ![q].at = at]
             \/ req' = [req EXCEPT ![q].new = new]
             \/ req' = [req EXCEPT ![q].link = ids]
             \/ req' = [req EXCEPT ![q].link = ids, ![q].own = own]
             \/ req' = [req EXCEPT ![q].tenant = tenants]
      PROVE  \/ stage'[r] = stage[r] /\ req'[r] = req[r]
             \/ stage'[r] # "send" /\ req'[r].purged \in {req[r].purged, {}}
  <2>1. CASE q # r
    BY <1>0, <1>5, <2>1 DEF Goto
  <2>2. CASE q = r
    <3>1. stage'[r] # "send"
      BY <1>0, <1>5, <2>2 DEF Goto
    <3>2. \/ req'[r] = [req[r] EXCEPT !.at = at]
          \/ req'[r] = [req[r] EXCEPT !.new = new]
          \/ req'[r] = [req[r] EXCEPT !.link = ids]
          \/ req'[r] = [req[r] EXCEPT !.link = ids, !.own = own]
          \/ req'[r] = [req[r] EXCEPT !.tenant = tenants]
      BY <1>0, <1>5, <2>2
    <3> QED  BY <1>0, <3>1, <3>2 DEF Request
  <2> QED  BY <2>1, <2>2
<1>6. ASSUME NEW q \in Handlers, Step(q)
      PROVE  \/ stage'[r] = stage[r] /\ req'[r] = req[r]
             \/ stage'[r] # "send" /\ req'[r].purged \in {req[r].purged, {}}
             \/ Purge(q)
             \/ \E ok \in BOOLEAN : Commit(q, ok)
  <2>1. CASE Touch(q) \/ Page(q) \/ Send(q)
    BY <2>1, <1>3, <1>4 DEF Touch, Page, Send
  <2>2. CASE Create(q)
    BY <2>2, <1>3, <1>5 DEF Create
  <2>3. CASE Revoke(q)
    BY <2>3, <1>3, <1>5 DEF Revoke
  <2>4. CASE Replace(q) \/ LinkFails(q)
    BY <2>4, <1>5 DEF Replace, LinkFails
  <2>6. CASE EnsureRead(q)
    BY <2>6, <1>5 DEF EnsureRead
  <2>7. CASE EnsureInsert(q)
    <3> DEFINE own == IF link[req[q].asked.tenant] = {} THEN {made + 1} ELSE {}
    <3>1. req' = [req EXCEPT ![q].link = {made + 1}, ![q].own = own] /\ Goto(q, "read")
      BY <2>7 DEF EnsureInsert
    <3> HIDE DEF own
    <3> QED  BY <3>1, <1>5
  <2>8. CASE EnsureReRead(q)
    BY <2>8, <1>5 DEF EnsureReRead
  <2>5. CASE ReadLink(q)
    BY <2>5, <1>5 DEF ReadLink
  <2> QED  BY <1>6, <2>1, <2>2, <2>3, <2>4, <2>5, <2>6, <2>7, <2>8 DEF Step
<1>7. ASSUME NEW q \in Handlers, Purge(q)
      PROVE  \/ stage'[r] = stage[r] /\ req'[r] = req[r]
             \/ stage'[r] # "send" /\ Purge(r)
                  /\ \A k \in req'[r].purged : Inactive(token[k], time, time - req[r].asked.age)
  <2> DEFINE gone == {k \in rows : Inactive(token[k], time, time - req[q].asked.age)}
  <2>1. stage' = [stage EXCEPT ![q] = "commit"] /\ req' = [req EXCEPT ![q].purged = gone]
    BY <1>7 DEF Purge, Goto
  <2>2. CASE q # r
    BY <1>0, <2>1, <2>2
  <2>3. CASE q = r
    <3>1. \A k \in gone : Inactive(token[k], time, time - req[q].asked.age)
      OBVIOUS
    <3> HIDE DEF gone
    <3>2. stage'[r] = "commit" /\ req'[r] = [req[r] EXCEPT !.purged = gone]
      BY <1>0, <2>1, <2>3
    <3>3. req'[r].purged = gone
      BY <1>0, <3>2 DEF Request
    <3> QED  BY <1>7, <2>3, <3>1, <3>2, <3>3
  <2> QED  BY <2>2, <2>3
<1>8. ASSUME NEW q \in Handlers, NEW ok \in BOOLEAN, Commit(q, ok)
      PROVE  \/ stage'[r] = stage[r] /\ req'[r] = req[r]
             \/ stage'[r] # "send" /\ req'[r].purged \in {req[r].purged, {}}
             \/ /\ stage[r] = "commit" /\ stage'[r] = "send" /\ Written(r)
                /\ req'[r].asked = req[r].asked /\ req'[r].new = req[r].new
                /\ req'[r].purged = req[r].purged
  <2>1. CASE ~ ok
    BY <1>3, <1>8, <2>1 DEF Commit, AnswerSent
  <2>2. CASE ok
    <3> DEFINE closed == link[req[q].asked.tenant]
    <3>1. /\ stage' = [stage EXCEPT ![q] = "send"] /\ Written(q) /\ stage[q] = "commit"
          /\ req' = req \/ req' = [req EXCEPT ![q].closed = closed]
      BY <1>8, <2>2 DEF Commit, AnswerSent, Goto
    <3>2. CASE q # r
      BY <1>0, <3>1, <3>2
    <3>3. CASE q = r
      <4> HIDE DEF closed
      <4>1. req'[r] = req[r] \/ req'[r] = [req[r] EXCEPT !.closed = closed]
        BY <1>0, <3>1, <3>3
      <4>2. /\ req'[r].asked = req[r].asked /\ req'[r].new = req[r].new
            /\ req'[r].purged = req[r].purged
        BY <1>0, <4>1 DEF Request
      <4> QED  BY <1>0, <3>1, <3>3, <4>2
    <3> QED  BY <3>2, <3>3
  <2> QED  BY <2>1, <2>2
<1> QED  BY <1>1, <1>2, <1>6, <1>7, <1>8, Zenon DEF AccessNext

(* A row is deleted only when it is dead.                                  *)
LEMMA RowStays ==
    ASSUME TokensInv, [AccessNext]_accessVars, NEW k \in Ids, k \in rows \/ Dead(k)
    PROVE  k \in rows' \/ Dead(k)'
<1>0. TypeInv /\ \A r \in Handlers : TokensOf(r)
  BY DEF TokensInv
<1>1. CASE Dead(k)
  BY <1>0, <1>1, DeadForGood
<1>2. CASE k \in rows /\ UNCHANGED rows
  BY <1>2
<1>3. ASSUME NEW r \in Handlers, Written(r), k \in rows
      PROVE  k \in rows' \/ Dead(k)'
  <2>1. CASE k \in req[r].purged
    BY <1>0, <2>1, DeadForGood DEF TokensOf
  <2>2. CASE k \notin req[r].purged
    BY <1>3, <2>2 DEF Written
  <2> QED  BY <2>1, <2>2
<1>4. UNCHANGED rows \/ \E r \in Handlers : Written(r)
  BY Zenon DEF AccessNext, accessVars, db, Tick, Begin, Step, Touch, Create, Revoke, Purge, Replace,
     EnsureRead, EnsureInsert, EnsureReRead, LinkFails, ReadLink, Page, Send, Commit
<1> QED  BY <1>1, <1>2, <1>3, <1>4

(* Tokens are shown when their creation is answered, and told revoked when
   their revocation is. *)
LEMMA AnswerSteps ==
    ASSUME TypeInv, [AccessNext]_accessVars
    PROVE  /\ \A k \in shown' : k \in shown \/ \E r \in Handlers :
                stage[r] = "send" /\ req[r].asked.kind = "create" /\ k = req[r].new
           /\ \A k \in revokedTold' : k \in revokedTold \/ \E r \in Handlers :
                stage[r] = "send" /\ req[r].asked.kind = "revoke" /\ k = req[r].asked.id
                /\ k \in Ids
<1>1. CASE UNCHANGED <<shown, revokedTold>>
  BY <1>1
<1>2. ASSUME NEW r \in Handlers, Send(r)
      PROVE  /\ \A k \in shown' : k \in shown \/
                  (stage[r] = "send" /\ req[r].asked.kind = "create" /\ k = req[r].new)
             /\ \A k \in revokedTold' : k \in revokedTold \/
                  (stage[r] = "send" /\ req[r].asked.kind = "revoke" /\ k = req[r].asked.id
                   /\ k \in Ids)
  <2>1. /\ stage[r] = "send"
        /\ shown' = shown \cup (IF req[r].asked.kind = "create" THEN {req[r].new} ELSE {})
        /\ revokedTold' = revokedTold
             \cup (IF req[r].asked.kind = "revoke" THEN {k \in Ids : k = req[r].asked.id} ELSE {})
    BY <1>2 DEF Send
  <2>2. \A k \in shown' : k \in shown \/ (req[r].asked.kind = "create" /\ k = req[r].new)
    BY <2>1
  <2>3. \A k \in revokedTold' : k \in revokedTold
             \/ (req[r].asked.kind = "revoke" /\ k = req[r].asked.id /\ k \in Ids)
    BY <2>1
  <2> QED  BY <2>1, <2>2, <2>3
<1>3. UNCHANGED <<shown, revokedTold>> \/ \E r \in Handlers : Send(r)
  <2>1. CASE Tick \/ UNCHANGED accessVars
    BY <2>1 DEF Tick, accessVars, hist
  <2>2. ASSUME NEW r \in Handlers, NEW who \in Callers, NEW asked \in Asked,
               Begin(r, who, asked)
        PROVE  UNCHANGED <<shown, revokedTold>>
    BY <2>2 DEF Begin, hist
  <2>3. ASSUME NEW r \in Handlers, Step(r), ~ Send(r)
        PROVE  UNCHANGED <<shown, revokedTold>>
    BY <2>3 DEF hist, Step, Touch, Create, Revoke, Purge, Replace, EnsureRead, EnsureInsert,
       EnsureReRead, LinkFails, ReadLink, Page, Commit
  <2> QED  BY <2>1, <2>2, <2>3 DEF AccessNext
<1> QED  BY <1>1, <1>2, <1>3

(* What a committed revocation or creation is.                             *)
LEMMA WrittenSends ==
    ASSUME TypeInv, NEW r \in Handlers, stage[r] = "commit", Written(r)
    PROVE  /\ req[r].asked.kind = "create" => req[r].new \in rows'
           /\ req[r].asked.kind = "revoke" => token'[req[r].asked.id].revoked # {}
<1>1. WellFormed(r) /\ token \in Seq(TokenRow) /\ Ids = 1 .. Len(token)
  BY Known
<1>2. ASSUME req[r].asked.kind = "create"
      PROVE  req[r].new \in rows'
  BY <1>1, <1>2 DEF WellFormed, Written
<1>3. ASSUME req[r].asked.kind = "revoke"
      PROVE  token'[req[r].asked.id].revoked # {}
  <2> DEFINE k == req[r].asked.id
  <2>1. k \in Ids
    BY <1>1, <1>3 DEF WellFormed
  <2>2. CASE token[k].revoked # {}
    BY <1>3, <2>2 DEF Written
  <2>3. CASE token[k].revoked = {}
    <3>1. token' = [token EXCEPT ![k].revoked = {req[r].at}]
      BY <1>3, <2>3 DEF Written
    <3>2. token[k] \in TokenRow
      BY <1>1, <2>1, ElementOfSeq
    <3>3. token'[k] = [token[k] EXCEPT !.revoked = {req[r].at}]
      BY <2>1, <3>1 DEF Ids
    <3> QED  BY <3>2, <3>3 DEF TokenRow
  <2> QED  BY <2>2, <2>3
<1> QED  BY <1>2, <1>3

(* What a request knows of tokens holds through the steps of the others.   *)
LEMMA TokensOfKept ==
    ASSUME TokensInv, [AccessNext]_accessVars, NEW r \in Handlers
    PROVE  TokensOf(r)'
<1>0. /\ TypeInv /\ TokensOf(r) /\ WellFormed(r) /\ TypeInv'
      /\ Ids = 1 .. Len(token) /\ Len(token) \in Nat /\ rows \subseteq Ids
  BY Known, NextKeepsTypes DEF TokensInv
<1>1. \A k \in req[r].purged : Dead(k)'
  BY <1>0, DeadForGood DEF TokensOf, WellFormed
<1>2. CASE stage'[r] = stage[r] /\ req'[r] = req[r]
  <2>1. ASSUME stage[r] = "send", req[r].asked.kind = "create", NEW k, k = req[r].new
        PROVE  k \in rows' \/ Dead(k)'
    <3>1. k \in Ids
      BY <1>0, <2>1 DEF WellFormed
    <3> QED  BY <1>0, <2>1, <3>1, RowStays DEF TokensOf
  <2>2. ASSUME stage[r] = "send", req[r].asked.kind = "revoke"
        PROVE  token'[req[r].asked.id].revoked # {}
    BY <1>0, <2>2, TokensGrow DEF TokensOf, WellFormed
  <2> QED  BY <1>1, <1>2, <2>1, <2>2, DeadIs DEF TokensOf, Dead, state
<1>3. CASE stage'[r] # "send" /\ req'[r].purged \in {req[r].purged, {}}
  BY <1>1, <1>3 DEF TokensOf, Dead, state
<1>4. CASE stage'[r] # "send" /\ Purge(r)
             /\ \A k \in req'[r].purged : Inactive(token[k], time, time - req[r].asked.age)
  <2>1. \A k \in req'[r].purged : Dead(k)
    BY <1>4, DeadIs DEF Inactive
  <2>2. UNCHANGED <<token, time>>
    BY <1>4 DEF Purge, db
  <2>3. \A k \in req'[r].purged : Dead(k)'
    BY <2>1, <2>2 DEF Dead, state
  <2> QED  BY <1>4, <2>3 DEF TokensOf, Dead, state
<1>5. CASE /\ stage[r] = "commit" /\ stage'[r] = "send" /\ Written(r)
           /\ req'[r].asked = req[r].asked /\ req'[r].new = req[r].new
           /\ req'[r].purged = req[r].purged
  BY <1>0, <1>1, <1>5, WrittenSends DEF TokensOf, Dead, state
<1> QED  BY <1>0, <1>2, <1>3, <1>4, <1>5, RequestSteps

(* Every reachable state satisfies TokensInv.                              *)
LEMMA TokensKept == AccessSpec => []TokensInv
<1>1. AccessInit => TokensInv
  <2> SUFFICES ASSUME AccessInit PROVE TokensInv
    OBVIOUS
  <2> QED  BY InitTypes, NothingTyped DEF AccessInit, TokensInv, ShownWorks, TokensOf
<1>2. ASSUME TokensInv, [AccessNext]_accessVars
      PROVE  TokensInv'
  <2>1. /\ TypeInv /\ TypeInv' /\ shown \subseteq Ids /\ revokedTold \subseteq Ids
        /\ Len(token) \in Nat /\ Ids = 1 .. Len(token)
    BY <1>2, NextKeepsTypes, LenProperties DEF TokensInv, TypeInv, TypeOK, Ids
  <2>2. ASSUME NEW k \in shown'
        PROVE  k \in rows' \/ Dead(k)'
    <3>1. CASE k \in shown
      BY <1>2, <2>1, <3>1, RowStays DEF TokensInv, ShownWorks, Dead
    <3>2. ASSUME NEW r \in Handlers, stage[r] = "send", req[r].asked.kind = "create",
                 k = req[r].new
          PROVE  k \in rows' \/ Dead(k)'
      <4>1. TokensOf(r) /\ WellFormed(r)
        BY <1>2, <2>1, Known DEF TokensInv
      <4>2. k \in Ids /\ (k \in rows \/ Dead(k))
        BY <2>1, <3>2, <4>1 DEF TokensOf, WellFormed
      <4> QED  BY <1>2, <4>2, RowStays
    <3> QED  BY <1>2, <2>1, <2>2, <3>1, <3>2, AnswerSteps
  <2>3. ASSUME NEW k \in revokedTold'
        PROVE  token'[k].revoked # {}
    <3>1. CASE k \in revokedTold
      BY <1>2, <2>1, <3>1, TokensGrow DEF TokensInv
    <3>2. ASSUME NEW r \in Handlers, stage[r] = "send", req[r].asked.kind = "revoke",
                 k = req[r].asked.id, k \in Ids
          PROVE  token'[k].revoked # {}
      BY <1>2, <2>1, <3>2, TokensGrow DEF TokensInv, TokensOf
    <3> QED  BY <1>2, <2>1, <2>3, <3>1, <3>2, AnswerSteps
  <2>4. ShownWorks'
    BY <2>2 DEF ShownWorks, Dead
  <2> QED  BY <1>2, <2>1, <2>3, <2>4, TokensOfKept DEF TokensInv
<1>3. TokensInv /\ UNCHANGED accessVars => TokensInv'
  BY <1>2
<1> QED  BY <1>1, <1>2, PTL DEF AccessSpec

(* A secret that was answered works until it is revoked or expires: its row
   is there, whatever failed and whatever was purged. *)
THEOREM SecretsWork == AccessSpec => []ShownWorks
<1>1. TokensInv => ShownWorks
  BY DEF TokensInv
<1> QED  BY <1>1, TokensKept, PTL

(* "Refused from the next request on": a request that begins after a token's
   revocation was answered does not get in with it. *)
THEOREM RevokedStayOut == AccessSpec => RevokedRefused
<1>1. ASSUME TokensInv, [AccessNext]_accessVars, NEW r \in Handlers, stage[r] = "idle", stage'[r] # "idle"
      PROVE  req'[r].user.token \notin revokedTold
  <2>0. /\ TypeInv /\ stage \in [Handlers -> Places] /\ req \in [Handlers -> Request]
        /\ revokedTold \subseteq Ids /\ Ids = 1 .. Len(token) /\ Len(token) \in Nat
        /\ \A k \in revokedTold : token[k].revoked # {}
    BY <1>1, Known DEF TokensInv
  <2>1. PICK who \in Callers, asked \in Asked : Begin(r, who, asked)
    <3>1. ASSUME NEW q \in Handlers, Step(q)
          PROVE  q # r /\ stage'[r] = stage[r]
      <4>1. stage[q] # "idle"
        BY <3>1 DEF Step, Touch, Create, Revoke, Purge, Replace, EnsureRead, EnsureInsert,
           EnsureReRead, LinkFails, ReadLink, Page, Send, Commit
      <4>2. \E place : stage' = [stage EXCEPT ![q] = place]
        BY <3>1, Zenon DEF Step, Touch, Create, Revoke, Purge, Replace, EnsureRead,
           EnsureInsert, EnsureReRead, LinkFails, ReadLink, Page, Send, Commit, Over, Goto
      <4> QED  BY <1>1, <2>0, <4>1, <4>2
    <3>2. ~ Tick /\ ~ UNCHANGED accessVars
      BY <1>1 DEF Tick, accessVars
    <3>3. ASSUME NEW q \in Handlers, NEW who \in Callers, NEW asked \in Asked,
                 Begin(q, who, asked), q # r
          PROVE  stage'[r] = stage[r]
      BY <2>0, <3>3 DEF Begin, Goto
    <3> QED  BY <1>1, <3>1, <3>2, <3>3 DEF AccessNext
  <2> DEFINE user == resolve_user(who)
             before == IF asked.kind \in {"link", "create"} /\ asked.tenant # Nobody
                       THEN replaced[asked.tenant] ELSE 0
  <2>2. /\ ~ user.rejected
        /\ req' = [req EXCEPT ![r] = [Nothing EXCEPT !.asked = asked, !.user = user,
                     !.at = time, !.closed = closedTold, !.before = before]]
    BY <2>1, Zenon DEF Begin
  <2>3. req'[r].user = user
    <3> HIDE DEF user, before
    <3> QED  BY <2>0, <2>2 DEF Nothing
  <2>4. user.token # 0 => state(token[user.token], time) = "active"
    BY <2>0, <2>2, UserTyped
  <2> HIDE DEF user
  <2>5. ASSUME NEW k \in revokedTold, k = user.token
        PROVE  FALSE
    <3>1. k # 0 /\ token[k].revoked # {}
      BY <2>0, <2>5
    <3> QED  BY <2>4, <2>5, <3>1 DEF state
  <2> QED  BY <2>3, <2>5
<1>2. TokensInv /\ [AccessNext]_accessVars =>
        [\A r \in Handlers : stage[r] = "idle" /\ stage'[r] # "idle" =>
           req'[r].user.token \notin revokedTold]_accessVars
  BY <1>1
<1> QED  BY <1>2, TokensKept, PTL DEF AccessSpec, RevokedRefused

-----------------------------------------------------------------------------
(* Links.                                                                  *)

(* The other requests are where they were.                                 *)
OthersStay(r) == \A q \in Handlers \ {r} : stage'[q] = stage[q] /\ req'[q] = req[q]

(* A step that writes no link.                                             *)
Quiet(r) ==
    /\ UNCHANGED <<link, made, replaced>> /\ OthersStay(r)
    /\ \/ req'[r].own = {}
       \/ /\ req'[r].own = req[r].own /\ req'[r].asked = req[r].asked
          /\ stage[r] = "read" /\ stage'[r] = "commit"

(* A step that makes an id, and writes it as its tenant's.                 *)
Made(r) ==
    LET t == req[r].asked.tenant IN
    /\ UNCHANGED <<link, replaced>> /\ OthersStay(r) /\ made' = made + 1
    /\ t \in Tenants /\ t \notin HeldLinks(r) /\ req'[r].asked = req[r].asked
    /\ stage'[r] \in {"read", "commit"}
    /\ req'[r].own \in {{}, {made + 1}}
    /\ req'[r].own # {} /\ req[r].asked.kind # "replace" => link[t] = {}

(* A commit.                                                               *)
Wrote(r) ==
    /\ UNCHANGED made /\ OthersStay(r) /\ Written(r)
    /\ stage[r] = "commit" /\ stage'[r] = "send" /\ req'[r].own = req[r].own

(* What none of them does: have a link opened again that is gone, or close
   one otherwise than by replacing it. *)
Onward ==
    /\ LinksDistinct'
    /\ \A id : Gone(id) => Gone(id)'
    /\ \A t \in Tenants : replaced[t] <= replaced'[t]
    /\ \A t \in Tenants : \A id : link[t] = {id} => link'[t] = {id} \/ replaced'[t] > replaced[t]

(* The types of links and of what requests know of them.                   *)
LEMMA LinkTypes ==
    ASSUME TypeInv
    PROVE  /\ link \in [Tenants -> SUBSET Nat] /\ replaced \in [Tenants -> Nat] /\ made \in Nat
           /\ req \in [Handlers -> Request] /\ stage \in [Handlers -> Places]
           /\ \A r \in Handlers : /\ req[r].before \in Nat
                                  /\ req[r].own # {} => req[r].asked.tenant \in Tenants
                                  /\ stage[r] = "idle" => req[r] = Nothing
<1>1. \A r \in Handlers : req[r] \in Request /\ WellFormed(r)
  BY Known
<1>2. \A r \in Handlers : req[r].before \in Nat
  BY <1>1 DEF Request
<1> QED  BY <1>1, <1>2 DEF WellFormed, TypeInv, TypeOK

(* A step that writes no link opens none.                                  *)
LEMMA QuietOnward ==
    ASSUME TypeInv, LinksDistinct, NEW r \in Handlers, Quiet(r)
    PROVE  Onward
<1>1. Pending' \subseteq Pending
      /\ \A q \in Handlers : /\ req'[q].own = {} \/ req'[q].own = req[q].own
                             /\ req'[q].own # {} => req'[q].asked = req[q].asked
  BY DEF Quiet, OthersStay, Pending
<1>2. /\ \A t \in Tenants : link'[t] \subseteq 1 .. made' /\ \A i, j \in link'[t] : i = j
      /\ \A t, u \in Tenants : t # u => link'[t] \cap link'[u] = {}
  BY DEF Quiet, LinksDistinct
<1>3. ASSUME NEW q \in Handlers
      PROVE  /\ req'[q].own \subseteq 1 .. made'
             /\ \A i, j \in req'[q].own : i = j
             /\ stage'[q] \in {"idle", "touch", "run", "ensure", "insert", "page"} =>
                  req'[q].own = {}
  BY DEF Quiet, OthersStay, LinksDistinct
<1>4. \A q \in Pending' : q \in Handlers /\ req'[q].own = req[q].own
                            /\ req'[q].asked = req[q].asked
  BY <1>1 DEF Pending
<1>5. /\ \A q \in Pending' : \A t \in Tenants : req'[q].own \cap link'[t] = {}
      /\ \A q, p \in Pending' : q # p =>
           req'[q].own \cap req'[p].own = {} /\ req'[q].asked.tenant # req'[p].asked.tenant
      /\ \A q \in Pending' : req'[q].asked.kind # "replace" =>
           link'[req'[q].asked.tenant] = {}
  BY <1>1, <1>4 DEF Quiet, LinksDistinct
<1>6. LinksDistinct'
  BY <1>2, <1>3, <1>5 DEF LinksDistinct
<1>7. \A id : Gone(id) => Gone(id)'
  BY <1>1, <1>4 DEF Gone, Quiet
<1>8. \A t \in Tenants : replaced[t] <= replaced'[t]
  BY LinkTypes DEF Quiet
<1> QED  BY <1>6, <1>7, <1>8 DEF Onward, Quiet

(* A new id was never a link before.                                       *)
LEMMA MadeOnward ==
    ASSUME TypeInv, LinksDistinct, NEW r \in Handlers, Made(r)
    PROVE  Onward
<1> DEFINE t == req[r].asked.tenant
<1>0. made \in Nat /\ made' = made + 1 /\ UNCHANGED <<link, replaced>> /\ t \in Tenants
      /\ 1 .. made \subseteq 1 .. made' /\ made + 1 \notin 1 .. made /\ made + 1 \in 1 .. made'
  BY LinkTypes DEF Made
<1>1. /\ req'[r].own \in {{}, {made + 1}} /\ req'[r].asked = req[r].asked
      /\ \A q \in Pending' : q # r => q \in Pending /\ req'[q] = req[q]
      /\ \A q \in Handlers : q # r => stage'[q] = stage[q] /\ req'[q] = req[q]
  BY DEF Made, OthersStay, Pending
<1>2. /\ \A u \in Tenants : link'[u] \subseteq 1 .. made' /\ \A i, j \in link'[u] : i = j
      /\ \A u, v \in Tenants : v # u => link'[v] \cap link'[u] = {}
  BY <1>0 DEF LinksDistinct
<1>3. ASSUME NEW q \in Handlers
      PROVE  /\ req'[q].own \subseteq 1 .. made'
             /\ \A i, j \in req'[q].own : i = j
             /\ stage'[q] \in {"idle", "touch", "run", "ensure", "insert", "page"} =>
                  req'[q].own = {}
  <2>1. CASE q = r
    BY <1>0, <1>1, <2>1 DEF Made
  <2>2. CASE q # r
    BY <1>0, <1>1, <2>2 DEF LinksDistinct
  <2> QED  BY <2>1, <2>2
<1>4. ASSUME NEW q \in Pending', NEW u \in Tenants
      PROVE  req'[q].own \cap link'[u] = {}
  BY <1>0, <1>1 DEF LinksDistinct
<1>5. ASSUME NEW q \in Pending', q # r
      PROVE  /\ req'[q].own \cap req'[r].own = {}
             /\ req'[q].asked.tenant # t
  <2>1. q \in Pending /\ req'[q] = req[q] /\ q \in Handlers
    BY <1>1, <1>5 DEF Pending
  <2>2. req[q].own \subseteq 1 .. made
    BY <2>1 DEF LinksDistinct
  <2>3. t \notin HeldLinks(r)
    BY DEF Made
  <2>4. req[q].asked.tenant # t
    BY <1>5, <2>1, <2>3 DEF HeldLinks, Waiting, Pending
  <2> QED  BY <1>0, <1>1, <2>1, <2>2, <2>4
<1>6. ASSUME NEW q \in Pending', NEW p \in Pending', q # p
      PROVE  req'[q].own \cap req'[p].own = {} /\ req'[q].asked.tenant # req'[p].asked.tenant
  <2>1. CASE q # r /\ p # r
    BY <1>1, <1>6, <2>1 DEF LinksDistinct
  <2>2. CASE q = r \/ p = r
    BY <1>1, <1>5, <1>6, <2>2
  <2> QED  BY <2>1, <2>2
<1>7. ASSUME NEW q \in Pending', req'[q].asked.kind # "replace"
      PROVE  link'[req'[q].asked.tenant] = {}
  <2>1. CASE q = r
    <3>1. req'[r].own # {}
      BY <2>1 DEF Pending
    <3> QED  BY <1>0, <1>1, <1>7, <2>1, <3>1 DEF Made
  <2>2. CASE q # r
    BY <1>0, <1>1, <1>7, <2>2 DEF LinksDistinct
  <2> QED  BY <2>1, <2>2
<1>8. LinksDistinct'
  BY <1>2, <1>3, <1>4, <1>6, <1>7 DEF LinksDistinct
<1>9. ASSUME NEW id, Gone(id)
      PROVE  Gone(id)'
  <2>1. \A q \in Pending' : id \notin req'[q].own
    BY <1>0, <1>1, <1>9 DEF Gone
  <2> QED  BY <1>0, <1>9, <2>1 DEF Gone
<1>10. \A u \in Tenants : replaced[u] <= replaced'[u]
  BY <1>0, LinkTypes
<1> QED  BY <1>0, <1>8, <1>9, <1>10 DEF Onward

(* A commit closes a link only by replacing it.                            *)
LEMMA WroteOnward ==
    ASSUME TypeInv, LinksDistinct, NEW r \in Handlers, Wrote(r)
    PROVE  Onward
<1> DEFINE t == req[r].asked.tenant
           own == req[r].own
<1>0. /\ made' = made /\ stage[r] = "commit" /\ stage'[r] = "send" /\ req'[r].own = own
      /\ own = {} => link' = link
      /\ own # {} => t \in Tenants /\ r \in Pending /\ link' = [link EXCEPT ![t] = own]
      /\ replaced' = IF req[r].asked.kind = "replace"
                     THEN [replaced EXCEPT ![t] = @ + 1] ELSE replaced
  BY LinkTypes DEF Wrote, Written, Pending
<1>1. /\ \A q \in Pending' : q # r /\ q \in Pending /\ q \in Handlers /\ req'[q] = req[q]
      /\ \A q \in Handlers : q # r => stage'[q] = stage[q] /\ req'[q] = req[q]
  BY <1>0 DEF Wrote, OthersStay, Pending
<1>2. \A u \in Tenants : link'[u] = IF own # {} /\ u = t THEN own ELSE link[u]
  BY <1>0, LinkTypes
<1>3. \A u \in Tenants : link'[u] \subseteq 1 .. made' /\ \A i, j \in link'[u] : i = j
  BY <1>0, <1>2 DEF LinksDistinct
<1>4. ASSUME NEW u \in Tenants, NEW v \in Tenants, u # v
      PROVE  link'[u] \cap link'[v] = {}
  <2>1. CASE own = {}
    BY <1>2, <1>4, <2>1 DEF LinksDistinct
  <2>2. CASE own # {}
    <3>1. own \cap link[u] = {} /\ own \cap link[v] = {}
      BY <1>0, <2>2 DEF LinksDistinct
    <3>2. link[u] \cap link[v] = {}
      BY <1>4 DEF LinksDistinct
    <3> HIDE DEF own, t
    <3> QED  BY <1>2, <1>4, <2>2, <3>1, <3>2
  <2> QED  BY <2>1, <2>2
<1>5. ASSUME NEW q \in Handlers
      PROVE  /\ req'[q].own \subseteq 1 .. made'
             /\ \A i, j \in req'[q].own : i = j
             /\ stage'[q] \in {"idle", "touch", "run", "ensure", "insert", "page"} =>
                  req'[q].own = {}
  <2>1. CASE q = r
    BY <1>0, <2>1 DEF LinksDistinct
  <2>2. CASE q # r
    BY <1>0, <1>1, <2>2 DEF LinksDistinct
  <2> QED  BY <2>1, <2>2
<1>6. ASSUME NEW q \in Pending'
      PROVE  /\ \A u \in Tenants : req'[q].own \cap link'[u] = {}
             /\ req'[q].asked.kind # "replace" => link'[req'[q].asked.tenant] = {}
  <2>1. q \in Pending /\ q # r /\ req'[q] = req[q] /\ q \in Handlers
    BY <1>1
  <2>2. \A u \in Tenants : req[q].own \cap link[u] = {}
    BY <2>1 DEF LinksDistinct
  <2>3. own # {} => req[q].own \cap own = {} /\ req[q].asked.tenant # t
    BY <1>0, <2>1 DEF LinksDistinct
  <2>4. req[q].asked.tenant \in Tenants
    BY <2>1, LinkTypes DEF Pending
  <2>5. req[q].asked.kind # "replace" => link[req[q].asked.tenant] = {}
    BY <2>1 DEF LinksDistinct
  <2> HIDE DEF own, t
  <2> QED  BY <1>2, <2>1, <2>2, <2>3, <2>4, <2>5
<1>7. \A q, p \in Pending' : q # p =>
        req'[q].own \cap req'[p].own = {} /\ req'[q].asked.tenant # req'[p].asked.tenant
  BY <1>1 DEF LinksDistinct
<1>8. LinksDistinct'
  BY <1>3, <1>4, <1>5, <1>6, <1>7 DEF LinksDistinct
<1>9. ASSUME NEW id, Gone(id)
      PROVE  Gone(id)'
  <2>1. \A q \in Pending' : id \notin req'[q].own
    BY <1>1, <1>9 DEF Gone
  <2>2. \A u \in Tenants : id \notin link'[u]
    BY <1>0, <1>2, <1>9 DEF Gone
  <2> QED  BY <1>0, <1>9, <2>1, <2>2 DEF Gone
<1>10. \A u \in Tenants : replaced[u] <= replaced'[u]
  BY <1>0, LinkTypes
<1>11. ASSUME NEW u \in Tenants, NEW id, link[u] = {id}
       PROVE  link'[u] = {id} \/ replaced'[u] > replaced[u]
  <2>1. CASE own # {} /\ u = t
    <3>1. req[r].asked.kind = "replace"
      BY <1>0, <1>11, <2>1 DEF LinksDistinct
    <3> QED  BY <1>0, <2>1, <3>1, LinkTypes
  <2>2. CASE ~ (own # {} /\ u = t)
    BY <1>2, <1>11, <2>2
  <2> QED  BY <2>1, <2>2
<1> QED  BY <1>8, <1>9, <1>10, <1>11 DEF Onward

(* What is answered stays right while others go on.                        *)
LEMMA OthersKeepLinks ==
    ASSUME TypeInv, TypeInv', Onward, NEW q \in Handlers, LinksOf(q),
           stage'[q] = stage[q], req'[q] = req[q]
    PROVE  LinksOf(q)'
<1> DEFINE t == req[q].asked.tenant
<1>1. Answers(q)'
  <2> SUFFICES ASSUME req[q].asked.kind \in {"create", "link"}, t \in Tenants
               PROVE  /\ req[q].before <= replaced'[t]
                      /\ stage[q] \in {"commit", "send"} => \A id \in req[q].link :
                           \/ link'[t] = {id}
                           \/ stage[q] = "commit" /\ req[q].own = {id}
                           \/ replaced'[t] > req[q].before
    BY DEF Answers
  <2>1. replaced[t] \in Nat /\ replaced'[t] \in Nat /\ req[q].before \in Nat
    BY LinkTypes DEF TypeInv, TypeOK
  <2>2. req[q].before <= replaced[t] /\ replaced[t] <= replaced'[t]
    BY DEF LinksOf, Answers, Onward
  <2>3. ASSUME stage[q] \in {"commit", "send"}, NEW id \in req[q].link
        PROVE  \/ link'[t] = {id}
               \/ stage[q] = "commit" /\ req[q].own = {id}
               \/ replaced'[t] > req[q].before
    <3>1. \/ link[t] = {id}
          \/ stage[q] = "commit" /\ req[q].own = {id}
          \/ replaced[t] > req[q].before
      BY <2>3 DEF LinksOf, Answers
    <3>2. link[t] = {id} => link'[t] = {id} \/ replaced'[t] > replaced[t]
      BY DEF Onward
    <3> QED  BY <2>1, <2>2, <3>1, <3>2
  <2> QED  BY <2>1, <2>2, <2>3
<1>2. \A id \in req'[q].closed : Gone(id)'
  BY DEF LinksOf, Onward
<1> QED  BY <1>1, <1>2 DEF LinksOf

(* What a step has to show of the request it is a step of.                 *)
LEMMA StepKeepsLinks ==
    ASSUME LinksInv, TypeInv', NEW r \in Handlers, OthersStay(r), Onward, LinksOf(r)',
           \A l \in linkTold' : l \in linkTold \/
              (l.before <= replaced[l.tenant]
               /\ (link[l.tenant] = {l.id} \/ replaced[l.tenant] > l.before)),
           \A id \in closedTold' : id \in closedTold \/ Gone(id)
    PROVE  LinksInv'
<1>0. TypeInv /\ \A q \in Handlers : LinksOf(q)
  BY DEF LinksInv
<1>1. \A q \in Handlers : LinksOf(q)'
  <2>1. ASSUME NEW q \in Handlers, q # r
        PROVE  LinksOf(q)'
    BY <1>0, <2>1, OthersKeepLinks DEF OthersStay
  <2> QED  BY <2>1
<1>2. ASSUME NEW l \in linkTold'
      PROVE  /\ l.before <= replaced'[l.tenant]
             /\ l.tenant \in tenant_for(l.id)' \/ replaced'[l.tenant] > l.before
  <2>1. l.tenant \in Tenants /\ l.before \in Nat
    BY <1>2 DEF TypeInv, TypeOK, Answer
  <2>2. replaced[l.tenant] \in Nat /\ replaced'[l.tenant] \in Nat
        /\ replaced[l.tenant] <= replaced'[l.tenant]
    BY <1>0, <2>1, LinkTypes DEF Onward, TypeInv, TypeOK
  <2>3. /\ l.before <= replaced[l.tenant]
        /\ link[l.tenant] = {l.id} \/ replaced[l.tenant] > l.before
    BY <1>2 DEF LinksInv, LinkKept, tenant_for
  <2>4. link[l.tenant] = {l.id} =>
          link'[l.tenant] = {l.id} \/ replaced'[l.tenant] > replaced[l.tenant]
    BY <2>1 DEF Onward
  <2>5. link'[l.tenant] = {l.id} \/ replaced'[l.tenant] > l.before
    BY <2>1, <2>2, <2>3, <2>4
  <2> QED  BY <2>1, <2>2, <2>3, <2>5 DEF tenant_for
<1>3. LinkKept'
  BY <1>2 DEF LinkKept
<1>4. \A id \in closedTold' : Gone(id)'
  BY DEF LinksInv, Onward
<1> QED  BY <1>1, <1>2, <1>3, <1>4 DEF LinksInv, Onward

(* A request that is over leaves nothing behind.                           *)
LEMMA OverKeepsLinks ==
    ASSUME LinksInv, NEW r \in Handlers, Over(r), UNCHANGED <<link, made, replaced>>
    PROVE  Quiet(r) /\ OthersStay(r) /\ Onward /\ LinksOf(r)'
<1>1. /\ stage' = [stage EXCEPT ![r] = "idle"] /\ req' = [req EXCEPT ![r] = Nothing] /\ TypeInv
      /\ LinksDistinct
  BY DEF Over, Goto, LinksInv
<1>2. OthersStay(r) /\ stage'[r] = "idle" /\ req'[r] = Nothing
  BY <1>1, LinkTypes DEF OthersStay
<1>3. Quiet(r)
  BY <1>2, NothingTyped DEF Quiet
<1>4. LinksOf(r)'
  BY <1>2, NothingTyped DEF LinksOf, Answers
<1> QED  BY <1>1, <1>2, <1>3, <1>4, QuietOnward

(* A request that goes on with what it asked for and what it saw.          *)
LEMMA GoesOn ==
    ASSUME LinksInv, NEW r \in Handlers, Quiet(r),
           req'[r].asked = req[r].asked, req'[r].before = req[r].before,
           req'[r].closed = req[r].closed, stage'[r] # "send",
           stage'[r] = "commit" => req[r].asked.kind # "replace",
           stage'[r] = "commit" /\ req[r].asked.kind \in {"create", "link"}
                /\ req[r].asked.tenant \in Tenants =>
              \A id \in req'[r].link : link[req[r].asked.tenant] = {id} \/ req'[r].own = {id},
           stage'[r] = "page" /\ req'[r].tenant # {} =>
              \E t \in Tenants : link[t] = {req[r].asked.link}
    PROVE  OthersStay(r) /\ Onward /\ LinksOf(r)'
<1>1. TypeInv /\ LinksOf(r) /\ LinksDistinct
  BY DEF LinksInv
<1>2. Onward /\ OthersStay(r) /\ UNCHANGED <<link, replaced>>
  BY <1>1, QuietOnward DEF Quiet
<1>3. Answers(r)'
  BY <1>1, <1>2 DEF Answers, LinksOf
<1>4. \A id \in req'[r].closed : Gone(id)'
  BY <1>1, <1>2 DEF LinksOf, Onward
<1>5. stage'[r] = "page" /\ req'[r].tenant # {} => req'[r].asked.link \notin req'[r].closed
  BY <1>1 DEF LinksOf, Gone
<1> QED  BY <1>2, <1>3, <1>4, <1>5 DEF LinksOf

(* A request begins with the links that are closed by then.                *)
LEMMA BeginKeepsLinks ==
    ASSUME LinksInv, NEW r \in Handlers, NEW who \in Callers, NEW asked \in Asked,
           Begin(r, who, asked)
    PROVE  OthersStay(r) /\ Onward /\ LinksOf(r)'
<1> DEFINE user == resolve_user(who)
           before == IF asked.kind \in {"link", "create"} /\ asked.tenant # Nobody
                     THEN replaced[asked.tenant] ELSE 0
           record == [Nothing EXCEPT !.asked = asked, !.user = user, !.at = time,
                        !.closed = closedTold, !.before = before]
<1>1. PICK place \in {"touch", "run"} :
           /\ stage' = [stage EXCEPT ![r] = place] /\ req' = [req EXCEPT ![r] = record]
           /\ UNCHANGED <<link, made, replaced>>
  BY Zenon DEF Begin, Goto, db, hist
<1>2. TypeInv /\ LinksDistinct
  BY DEF LinksInv
<1>3. /\ record.asked = asked /\ record.own = {} /\ record.link = {}
      /\ record.closed = closedTold /\ record.before = before /\ record.tenant = {}
  <2> HIDE DEF user, before
  <2> QED  BY NothingTyped DEF Nothing
<1>4. asked.tenant \in Tenants /\ asked.kind \in {"create", "link"} =>
        before = replaced[asked.tenant] /\ before \in Nat
  BY <1>2, LinkTypes, AccessAssumption DEF AccessAssumption
<1> HIDE DEF record, before
<1>5. /\ OthersStay(r) /\ stage'[r] = place /\ req'[r] = record
  BY <1>1, <1>2, LinkTypes DEF OthersStay
<1>6. Quiet(r)
  BY <1>1, <1>3, <1>5 DEF Quiet
<1>7. Onward
  BY <1>2, <1>6, QuietOnward
<1>8. Answers(r)'
  BY <1>1, <1>3, <1>4, <1>5 DEF Answers
<1>9. \A id \in req'[r].closed : Gone(id)'
  BY <1>3, <1>5, <1>7 DEF LinksInv, Onward
<1> QED  BY <1>1, <1>3, <1>5, <1>7, <1>8, <1>9 DEF LinksOf

(* The last use is no business of links.                                   *)
LEMMA TouchKeepsLinks ==
    ASSUME LinksInv, NEW r \in Handlers, Touch(r)
    PROVE  OthersStay(r) /\ Onward /\ LinksOf(r)'
<1>1. UNCHANGED <<link, made, replaced>> /\ stage[r] = "touch"
  BY DEF Touch, hist
<1>2. CASE Over(r)
  BY <1>1, <1>2, OverKeepsLinks
<1>3. CASE Goto(r, "run") /\ UNCHANGED req
  <2>1. stage'[r] = "run" /\ OthersStay(r) /\ req[r].own = {}
    BY <1>1, <1>3, LinkTypes DEF Goto, OthersStay, LinksInv, LinksDistinct
  <2>2. Quiet(r)
    BY <1>1, <1>3, <2>1 DEF Quiet
  <2> QED  BY <1>3, <2>1, <2>2, GoesOn
<1> QED  BY <1>2, <1>3 DEF Touch

(* Nor are the requests about tokens.                                      *)
LEMMA PlainKeepsLinks ==
    ASSUME LinksInv, NEW r \in Handlers, Create(r) \/ Revoke(r) \/ Purge(r)
    PROVE  OthersStay(r) /\ Onward /\ LinksOf(r)'
<1>1. /\ UNCHANGED <<link, made, replaced>> /\ stage[r] = "run" /\ TypeInv /\ req[r].own = {}
      /\ req[r].asked.kind \in {"create", "revoke", "purge"}
  BY DEF Create, Revoke, Purge, db, hist, LinksInv, LinksDistinct
<1>2. CASE Over(r)
  BY <1>1, <1>2, OverKeepsLinks
<1>3. ASSUME NEW place \in {"ensure", "commit"}, Goto(r, place), NEW new,
             req[r].asked.kind = "create" /\ place = "commit" =>
               req[r].asked.tenant \notin Tenants,
             \/ req' = [req EXCEPT ![r].at = new]
             \/ req' = [req EXCEPT ![r].new = new]
             \/ req' = [req EXCEPT ![r].purged = new]
      PROVE  OthersStay(r) /\ Onward /\ LinksOf(r)'
  <2>1. req'[r] \in {[req[r] EXCEPT !.at = new], [req[r] EXCEPT !.new = new],
                     [req[r] EXCEPT !.purged = new]}
    BY <1>1, <1>3, LinkTypes
  <2>2. req[r] \in Request
    BY <1>1, Known
  <2>3. /\ req'[r].asked = req[r].asked /\ req'[r].before = req[r].before
        /\ req'[r].closed = req[r].closed /\ req'[r].own = req[r].own
    BY <2>1, <2>2 DEF Request
  <2>4. OthersStay(r) /\ stage'[r] = place
    BY <1>1, <1>3, LinkTypes DEF OthersStay, Goto
  <2>5. Quiet(r)
    BY <1>1, <2>3, <2>4 DEF Quiet
  <2> QED  BY <1>1, <1>3, <2>3, <2>4, <2>5, GoesOn
<1>4. CASE Create(r)
  <2> DEFINE place == IF req[r].asked.tenant # Nobody THEN "ensure" ELSE "commit"
  <2>1. CASE Goto(r, place) /\ req' = [req EXCEPT ![r].new = Len(token) + 1]
    <3>1. place = "commit" => req[r].asked.tenant \notin Tenants
      BY AccessAssumption DEF AccessAssumption
    <3>2. place \in {"ensure", "commit"}
      OBVIOUS
    <3> HIDE DEF place
    <3> QED  BY <1>3, <2>1, <3>1, <3>2
  <2> QED  BY <1>2, <1>4, <2>1 DEF Create
<1>5. CASE Revoke(r)
  <2>1. req[r].asked.kind = "revoke"
    BY <1>5 DEF Revoke
  <2> QED  BY <1>2, <1>3, <1>5, <2>1 DEF Revoke
<1>6. CASE Purge(r)
  <2>1. /\ req[r].asked.kind = "purge" /\ Goto(r, "commit")
        /\ \E gone : req' = [req EXCEPT ![r].purged = gone]
    BY <1>6 DEF Purge
  <2> QED  BY <1>3, <2>1
<1> QED  BY <1>4, <1>5, <1>6

(* A link that was read is the tenant's, or replaced.                      *)
LEMMA ReadsKeepLinks ==
    ASSUME LinksInv, NEW r \in Handlers,
           EnsureRead(r) \/ EnsureReRead(r) \/ LinkFails(r) \/ ReadLink(r)
    PROVE  OthersStay(r) /\ Onward /\ LinksOf(r)'
<1> DEFINE t == req[r].asked.tenant
<1>0. TypeInv /\ LinksDistinct /\ req[r] \in Request /\ WellFormed(r)
  BY Known DEF LinksInv
<1>1. UNCHANGED <<link, made, replaced>>
  BY DEF EnsureRead, EnsureReRead, LinkFails, ReadLink, db, hist
<1>2. ASSUME NEW ids, NEW place \in {"commit", "insert"}, Goto(r, place),
             req' = [req EXCEPT ![r].link = ids],
             stage[r] \in {"run", "ensure"} \/ (stage[r] = "read" /\ place = "commit"),
             req[r].asked.kind # "replace",
             place = "commit" => \A id \in ids : link[t] = {id} \/ req[r].own = {id}
      PROVE  OthersStay(r) /\ Onward /\ LinksOf(r)'
  <2>1. OthersStay(r) /\ stage'[r] = place /\ req'[r] = [req[r] EXCEPT !.link = ids]
    BY <1>0, <1>2, LinkTypes DEF OthersStay, Goto
  <2>2. /\ req'[r].asked = req[r].asked /\ req'[r].before = req[r].before
        /\ req'[r].closed = req[r].closed /\ req'[r].own = req[r].own
        /\ req'[r].link = ids
    BY <1>0, <2>1 DEF Request
  <2>3. stage[r] \in {"run", "ensure"} => req[r].own = {}
    BY <1>0 DEF LinksDistinct
  <2>4. Quiet(r)
    BY <1>1, <1>2, <2>1, <2>2, <2>3 DEF Quiet
  <2> QED  BY <1>2, <2>1, <2>2, <2>4, GoesOn
<1>3. CASE EnsureRead(r)
  <2> DEFINE place == IF link[t] # {} THEN "commit" ELSE "insert"
  <2>1. /\ req' = [req EXCEPT ![r].link = link[t]] /\ Goto(r, place)
        /\ stage[r] = "ensure" \/ (stage[r] = "run" /\ req[r].asked.kind = "link")
    BY <1>3 DEF EnsureRead
  <2>2. req[r].asked.kind # "replace" /\ t \in Tenants
    BY <1>0, <2>1, AtLink
  <2>3. \A id \in link[t] : link[t] = {id}
    BY <1>0, <2>2 DEF LinksDistinct
  <2>4. place \in {"commit", "insert"}
    OBVIOUS
  <2> HIDE DEF place
  <2> QED  BY <1>2, <2>1, <2>2, <2>3, <2>4
<1>4. CASE EnsureReRead(r)
  <2>1. /\ req' = [req EXCEPT ![r].link = ReRead(r)] /\ Goto(r, "commit") /\ stage[r] = "read"
    BY <1>4 DEF EnsureReRead
  <2>2. req[r].asked.kind # "replace" /\ t \in Tenants
    BY <1>0, <2>1, AtLink
  <2>3. /\ \A id \in link[t] : link[t] = {id}
        /\ \A id \in req[r].own : req[r].own = {id}
    BY <1>0, <2>2 DEF LinksDistinct
  <2>4. \A id \in ReRead(r) : link[t] = {id} \/ req[r].own = {id}
    BY <2>3 DEF ReRead
  <2> QED  BY <1>2, <2>1, <2>2, <2>4
<1>5. CASE LinkFails(r)
  <2>1. /\ req' = [req EXCEPT ![r].link = {}, ![r].own = {}] /\ Goto(r, "commit")
        /\ stage[r] \in {"ensure", "insert", "read"}
    BY <1>5 DEF LinkFails
  <2>2. req[r].asked.kind # "replace"
    BY <1>0, <2>1, AtLink
  <2>3. /\ OthersStay(r) /\ stage'[r] = "commit"
        /\ req'[r] = [req[r] EXCEPT !.link = {}, !.own = {}]
    BY <1>0, <2>1, LinkTypes DEF OthersStay, Goto
  <2>4. /\ req'[r].asked = req[r].asked /\ req'[r].before = req[r].before
        /\ req'[r].closed = req[r].closed /\ req'[r].own = {} /\ req'[r].link = {}
    BY <1>0, <2>3 DEF Request
  <2>5. Quiet(r)
    BY <1>1, <2>3, <2>4 DEF Quiet
  <2> QED  BY <2>2, <2>3, <2>4, <2>5, GoesOn
<1>6. CASE ReadLink(r)
  <2> DEFINE tenants == tenant_for(req[r].asked.link)
  <2>1. /\ req' = [req EXCEPT ![r].tenant = tenants] /\ Goto(r, "page") /\ stage[r] = "run"
    BY <1>6 DEF ReadLink
  <2>2. tenants # {} => \E u \in Tenants : link[u] = {req[r].asked.link}
    BY DEF tenant_for
  <2> HIDE DEF tenants
  <2>3. /\ OthersStay(r) /\ stage'[r] = "page" /\ req'[r] = [req[r] EXCEPT !.tenant = tenants]
    BY <1>0, <2>1, LinkTypes DEF OthersStay, Goto
  <2>4. /\ req'[r].asked = req[r].asked /\ req'[r].before = req[r].before
        /\ req'[r].closed = req[r].closed /\ req'[r].own = {} /\ req'[r].tenant = tenants
    BY <1>0, <2>1, <2>3 DEF Request, LinksDistinct
  <2>5. Quiet(r)
    BY <1>1, <2>3, <2>4 DEF Quiet
  <2> QED  BY <2>2, <2>3, <2>4, <2>5, GoesOn
<1> QED  BY <1>3, <1>4, <1>5, <1>6

(* A request that makes an id is the only one at its tenant.               *)
LEMMA MakesKeepLinks ==
    ASSUME LinksInv, NEW r \in Handlers, EnsureInsert(r) \/ Replace(r)
    PROVE  OthersStay(r) /\ Onward /\ LinksOf(r)'
<1> DEFINE t == req[r].asked.tenant
<1>0. TypeInv /\ LinksDistinct /\ req[r] \in Request /\ LinksOf(r)
  BY Known DEF LinksInv
<1>1. UNCHANGED <<link, replaced>> /\ made' = made + 1 /\ t \notin HeldLinks(r)
  BY DEF EnsureInsert, Replace, db, hist
<1>2. PICK own \in {{}, {made + 1}}, place \in {"read", "commit"} :
           /\ req' = [req EXCEPT ![r].link = {made + 1}, ![r].own = own] /\ Goto(r, place)
           /\ \/ stage[r] = "insert" /\ place = "read" /\ (own # {} => link[t] = {})
              \/ /\ stage[r] = "run" /\ place = "commit" /\ own # {}
                 /\ req[r].asked.kind = "replace"
  BY DEF EnsureInsert, Replace
<1>3. t \in Tenants
  BY <1>0, <1>2, AtLink
<1>4. /\ OthersStay(r) /\ stage'[r] = place
      /\ req'[r] = [req[r] EXCEPT !.link = {made + 1}, !.own = own]
  BY <1>0, <1>2, LinkTypes DEF OthersStay, Goto
<1>5. /\ req'[r].asked = req[r].asked /\ req'[r].before = req[r].before
      /\ req'[r].closed = req[r].closed /\ req'[r].own = own
  BY <1>0, <1>4 DEF Request
<1>6. Made(r)
  BY <1>1, <1>2, <1>3, <1>4, <1>5 DEF Made
<1>7. Onward
  BY <1>0, <1>6, MadeOnward
<1>8. Answers(r)'
  BY <1>0, <1>1, <1>2, <1>4, <1>5 DEF Answers, LinksOf
<1>9. \A id \in req'[r].closed : Gone(id)'
  BY <1>0, <1>5, <1>7 DEF LinksOf, Onward
<1> QED  BY <1>2, <1>4, <1>5, <1>7, <1>8, <1>9 DEF LinksOf

(* A commit makes what was written the tenant's link.                      *)
LEMMA CommitKeepsLinks ==
    ASSUME LinksInv, NEW r \in Handlers, NEW ok \in BOOLEAN, Commit(r, ok)
    PROVE  OthersStay(r) /\ Onward /\ LinksOf(r)'
<1> DEFINE t == req[r].asked.tenant
<1>0. TypeInv /\ LinksDistinct /\ req[r] \in Request /\ LinksOf(r)
  BY Known DEF LinksInv
<1>1. CASE ~ ok
  BY <1>1, OverKeepsLinks DEF Commit, AnswerSent, db
<1>2. CASE ok
  <2>1. /\ stage[r] = "commit" /\ Written(r) /\ Goto(r, "send") /\ UNCHANGED made
        /\ req' = IF req[r].asked.kind = "replace"
                  THEN [req EXCEPT ![r].closed = link[t]] ELSE req
    BY <1>2 DEF Commit, AnswerSent
  <2>2. OthersStay(r) /\ stage'[r] = "send"
    BY <1>0, <2>1, LinkTypes DEF OthersStay, Goto
  <2>3. /\ req'[r].asked = req[r].asked /\ req'[r].before = req[r].before
        /\ req'[r].own = req[r].own /\ req'[r].link = req[r].link
        /\ req'[r].closed = IF req[r].asked.kind = "replace" THEN link[t] ELSE req[r].closed
    <3>1. CASE req[r].asked.kind = "replace"
      <4>1. req'[r] = [req[r] EXCEPT !.closed = link[t]]
        BY <1>0, <2>1, <3>1, LinkTypes
      <4> QED  BY <1>0, <3>1, <4>1 DEF Request
    <3>2. CASE req[r].asked.kind # "replace"
      BY <2>1, <3>2
    <3> QED  BY <3>1, <3>2
  <2>4. Wrote(r)
    BY <2>1, <2>2, <2>3 DEF Wrote
  <2>5. Onward
    BY <1>0, <2>4, WroteOnward
  <2>6. ASSUME req[r].asked.kind = "replace", NEW id \in link[t]
        PROVE  Gone(id)'
    <3>1. /\ req[r].own # {} /\ r \in Pending /\ t \in Tenants
          /\ link' = [link EXCEPT ![t] = req[r].own]
      BY <1>0, <2>1, <2>6, LinkTypes DEF LinksOf, Pending, Written
    <3>2. id \in 1 .. made' /\ req[r].own \cap link[t] = {}
      BY <1>0, <2>1, <2>6, <3>1 DEF LinksDistinct
    <3>3. \A u \in Tenants : id \notin link'[u]
      <4>1. \A u \in Tenants : link'[u] = IF u = t THEN req[r].own ELSE link[u]
        BY <1>0, <3>1, LinkTypes
      <4>2. \A u \in Tenants : u # t => link[u] \cap link[t] = {}
        BY <1>0, <3>1 DEF LinksDistinct
      <4> QED  BY <2>6, <3>2, <4>1, <4>2
    <3>4. \A q \in Pending' : id \notin req'[q].own
      <4>1. \A q \in Pending' : q \in Pending /\ q # r /\ req'[q] = req[q]
        BY <2>2 DEF Pending, OthersStay
      <4>2. \A q \in Pending : req[q].own \cap link[t] = {}
        BY <1>0, <3>1 DEF LinksDistinct
      <4> QED  BY <2>6, <4>1, <4>2
    <3> QED  BY <3>2, <3>3, <3>4 DEF Gone
  <2>7. \A id \in req'[r].closed : Gone(id)'
    BY <1>0, <2>3, <2>5, <2>6 DEF LinksOf, Onward
  <2>8. Answers(r)'
    <3> SUFFICES ASSUME req[r].asked.kind \in {"create", "link"}, t \in Tenants
                 PROVE  /\ req[r].before <= replaced[t] /\ UNCHANGED replaced
                        /\ \A id \in req[r].link :
                             link'[t] = {id} \/ replaced[t] > req[r].before
      BY <2>2, <2>3 DEF Answers
    <3>1. UNCHANGED replaced /\ req[r].before <= replaced[t]
      BY <1>0, <2>1 DEF Written, LinksOf, Answers
    <3>2. ASSUME NEW id \in req[r].link
          PROVE  link'[t] = {id} \/ replaced[t] > req[r].before
      <4>1. link[t] = {id} \/ req[r].own = {id} \/ replaced[t] > req[r].before
        BY <1>0, <2>1 DEF LinksOf, Answers
      <4>2. CASE req[r].own = {}
        BY <2>1, <4>1, <4>2 DEF Written
      <4>3. CASE req[r].own # {}
        <5>1. link[t] = {} /\ link' = [link EXCEPT ![t] = req[r].own]
          BY <1>0, <2>1, <4>3 DEF LinksDistinct, Pending, Written
        <5> QED  BY <1>0, <4>1, <5>1, LinkTypes
      <4> QED  BY <4>2, <4>3
    <3> QED  BY <3>1, <3>2
  <2> QED  BY <2>2, <2>5, <2>7, <2>8 DEF LinksOf
<1> QED  BY <1>1, <1>2

(* What is answered is as the request has it.                              *)
LEMMA SendKeepsLinks ==
    ASSUME LinksInv, NEW r \in Handlers, Send(r)
    PROVE  /\ OthersStay(r) /\ Onward /\ LinksOf(r)'
           /\ \A l \in linkTold' : l \in linkTold \/
                (l.before <= replaced[l.tenant]
                 /\ (link[l.tenant] = {l.id} \/ replaced[l.tenant] > l.before))
           /\ \A id \in closedTold' : id \in closedTold \/ Gone(id)
<1> DEFINE t == req[r].asked.tenant
           answers == {[tenant |-> t, id |-> id, before |-> req[r].before] : id \in req[r].link}
<1>1. /\ UNCHANGED <<link, made, replaced>> /\ Over(r) /\ stage[r] = "send"
      /\ linkTold' = linkTold \cup (IF req[r].asked.kind \in {"link", "create"} THEN answers ELSE {})
      /\ closedTold' = closedTold
           \cup (IF req[r].asked.kind = "replace" THEN req[r].closed ELSE {})
  BY DEF Send, db
<1>2. TypeInv /\ LinksOf(r) /\ WellFormed(r)
  BY Known DEF LinksInv
<1>3. ASSUME NEW l \in answers, req[r].asked.kind \in {"link", "create"}
      PROVE  /\ l.before <= replaced[l.tenant]
             /\ link[l.tenant] = {l.id} \/ replaced[l.tenant] > l.before
  <2>1. PICK id \in req[r].link :
             l = [tenant |-> t, id |-> id, before |-> req[r].before]
    BY <1>3
  <2>2. l.tenant = t /\ l.id = id /\ l.before = req[r].before
    BY <2>1
  <2>3. t \in Tenants
    BY <1>2, <2>1 DEF WellFormed
  <2> QED  BY <1>1, <1>2, <1>3, <2>2, <2>3 DEF LinksOf, Answers
<1> HIDE DEF answers
<1>4. \A id \in closedTold' : id \in closedTold \/ Gone(id)
  BY <1>1, <1>2 DEF LinksOf
<1> QED  BY <1>1, <1>3, <1>4, OverKeepsLinks

(* Every step keeps LinksInv.                                              *)
LEMMA NextKeepsLinks == LinksInv /\ [AccessNext]_accessVars => LinksInv'
<1> SUFFICES ASSUME LinksInv, [AccessNext]_accessVars PROVE LinksInv'
  OBVIOUS
<1>0. TypeInv /\ TypeInv'
  BY NextKeepsTypes DEF LinksInv
<1>1. CASE Tick \/ UNCHANGED accessVars
  <2>1. UNCHANGED <<link, made, replaced, linkTold, closedTold, stage, req>>
    BY <1>1 DEF Tick, accessVars, db, hist
  <2> QED
    BY <1>0, <2>1 DEF LinksInv, LinksDistinct, LinkKept, tenant_for, LinksOf, Answers, Gone,
                      Pending
<1>2. ASSUME NEW r \in Handlers, NEW who \in Callers, NEW asked \in Asked,
             Begin(r, who, asked)
      PROVE  LinksInv'
  <2>1. UNCHANGED <<linkTold, closedTold>>
    BY <1>2 DEF Begin, hist
  <2> QED  BY <1>0, <1>2, <2>1, BeginKeepsLinks, StepKeepsLinks
<1>3. ASSUME NEW r \in Handlers, Step(r), ~ Send(r)
      PROVE  LinksInv'
  <2>1. UNCHANGED <<linkTold, closedTold>>
    BY <1>3 DEF hist, Step, Touch, Create, Revoke, Purge, Replace, EnsureRead, EnsureInsert,
       EnsureReRead, LinkFails, ReadLink, Page, Commit
  <2>2. OthersStay(r) /\ Onward /\ LinksOf(r)'
    <3>1. CASE Page(r)
      BY <3>1, OverKeepsLinks DEF Page, db, hist
    <3> QED  BY <1>3, <3>1, TouchKeepsLinks, PlainKeepsLinks, ReadsKeepLinks, MakesKeepLinks,
                CommitKeepsLinks DEF Step
  <2> QED  BY <1>0, <2>1, <2>2, StepKeepsLinks
<1>4. ASSUME NEW r \in Handlers, Send(r)
      PROVE  LinksInv'
  BY <1>0, <1>4, SendKeepsLinks, StepKeepsLinks
<1> QED  BY <1>1, <1>2, <1>3, <1>4 DEF AccessNext

(* Every reachable state satisfies LinksInv.                               *)
LEMMA LinksInvKept == AccessSpec => []LinksInv
<1>1. AccessInit => LinksInv
  <2> SUFFICES ASSUME AccessInit PROVE LinksInv
    OBVIOUS
  <2>1. LinksDistinct
    BY NothingTyped DEF AccessInit, LinksDistinct, Pending
  <2>2. \A r \in Handlers : LinksOf(r)
    BY NothingTyped DEF AccessInit, LinksOf, Answers
  <2> QED  BY <2>1, <2>2, InitTypes DEF AccessInit, LinksInv, LinkKept
<1> QED  BY <1>1, NextKeepsLinks, PTL DEF AccessSpec

(* A link that was answered for a tenant opens its page, until a replacement
   that was not yet committed when the link was asked for: two requests that
   make a tenant's first link answer the same one. *)
THEOREM LinksOpen == AccessSpec => []LinkKept
<1>1. LinksInv => LinkKept
  BY DEF LinksInv
<1> QED  BY <1>1, LinksInvKept, PTL

(* A page is shown only through a link that had not been answered as replaced
   when the request began, and a status token is shown its own tenant's. *)
THEOREM PagesOwn == AccessSpec => PageOwn
<1>1. ASSUME LinksInv, NEW r \in Handlers, stage[r] = "page", Opens(r)
      PROVE  /\ req[r].asked.link \notin req[r].closed
             /\ is_status_token(req[r].user) => req[r].tenant = {req[r].user.tenant}
  <2>1. req[r].asked.link \notin req[r].closed
    BY <1>1 DEF LinksInv, LinksOf, Opens
  <2>2. is_status_token(req[r].user) => req[r].tenant = {req[r].user.tenant}
    BY <1>1 DEF Opens, status_access, is_status_token
  <2> QED  BY <2>1, <2>2
<1>2. LinksInv /\ [AccessNext]_accessVars =>
        [\A r \in Handlers : stage[r] = "page" /\ stage'[r] = "idle" /\ Opens(r) =>
           /\ req[r].asked.link \notin req[r].closed
           /\ is_status_token(req[r].user) => req[r].tenant = {req[r].user.tenant}]_accessVars
  BY <1>1
<1> QED  BY <1>2, LinksInvKept, PTL DEF AccessSpec, PageOwn
=============================================================================
