---------------------------- MODULE AccessProofs ----------------------------
(***************************************************************************)
(* What a request may see, what ends with a token, and that requests end,  *)
(* for any number of requests, connections, users, organisations and       *)
(* tokens.                                                                 *)
(***************************************************************************)
EXTENDS Access, FiniteSetTheorems, TLAPS

States == {"idle", "login", "write", "arrived", "touch", "context", "scoped", "working"}

Row == [user : Users \cup {Nobody}, valid : BOOLEAN]

RequestType ==
    [pc : States, user : Users \cup {Nobody}, token : Tokens \cup {Nobody}, row : Row,
     scope : Orgs \cup {Nobody}, target : Targets,
     auth : Connections \cup {Nobody}, work : Connections \cup {Nobody}]

\* What the context of a request sets on its connection.
SettingOf(r) ==
    IF request[r].target = Nobody THEN [org |-> NilOrg, user |-> request[r].user]
                                  ELSE [org |-> request[r].target, user |-> Nobody]

\* A request as it leaves its authentication.
Authenticated(r, p, u, row, s, c) ==
    [request[r] EXCEPT !.pc = p, !.user = u, !.row = row, !.scope = s, !.auth = c]

\* What a request has found out so far, and what its transaction is set to.
Consistent(r) ==
    /\ request[r].pc \in {"scoped", "working"} <=> request[r].work # Nobody
    /\ request[r].pc \in {"scoped", "working"} =>
         /\ setting[request[r].work] = SettingOf(r)
         /\ request[r].target # Nobody => MayOpen(r)
    /\ request[r].pc = "scoped" => request[r].target # Nobody
    /\ request[r].pc \in {"touch", "context", "scoped", "working"} /\ request[r].token # Nobody
         => request[r].scope = Scope[request[r].token]

\* A connection is set only while a transaction works on it, and each
\* connection is one request's.
PoolConsistent ==
    /\ \A c \in Connections : (\A r \in Requests : request[r].work # c) => setting[c] = Unset
    /\ \A q, r \in Requests : q # r => Held(q) \cap Held(r) = {}

RowsConsistent ==
    /\ users \in [Users -> {"new", "present", "deleted"}]
    /\ members \subseteq Present \X Orgs
    /\ sessions \subseteq Present
    /\ tokens \in [Tokens -> Row]
    /\ \A t \in Tokens : tokens[t] \in {NoRow, DeletedRow} \/ tokens[t].user \in Present

IInv ==
    /\ request \in [Requests -> RequestType]
    /\ setting \in [Connections -> [org : Targets, user : Users \cup {Nobody}]]
    /\ changes \in 0 .. MaxChanges
    /\ RowsConsistent
    /\ PoolConsistent
    /\ \A r \in Requests : Consistent(r)

-----------------------------------------------------------------------------
\* Nobody has asked for anything.
LEMMA InitIInv == Init => IInv
  <1> SUFFICES ASSUME Init PROVE IInv
    OBVIOUS
  <1> USE AccessAssumption
  <1>1. \A r \in Requests : request[r] = NoRequest
    BY DEF Init
  <1>2. NoRequest \in RequestType
    BY DEF NoRequest, RequestType, States, Row, NoRow, Targets
  <1>3. /\ request \in [Requests -> RequestType]
        /\ setting \in [Connections -> [org : Targets, user : Users \cup {Nobody}]]
        /\ changes \in 0 .. MaxChanges
    BY <1>2 DEF Init, Unset, Targets
  <1>4. RowsConsistent
    <2>1. users \in [Users -> {"new", "present", "deleted"}]
      BY DEF Init
    <2>2. members \subseteq Present \X Orgs
      <3> SUFFICES ASSUME NEW m \in Enrolled PROVE m \in Present \X Orgs
        BY DEF Init
      <3>1. PICK u \in Users, o \in Orgs : m = <<u, o>>
        OBVIOUS
      <3> QED
        BY <3>1 DEF Init, Present
    <2>3. sessions = {} /\ tokens \in [Tokens -> Row] /\ \A t \in Tokens : tokens[t] = NoRow
      BY DEF Init, Row, NoRow
    <2> QED
      BY <2>1, <2>2, <2>3 DEF RowsConsistent
  <1>5. PoolConsistent
    BY <1>1 DEF Init, PoolConsistent, Held, NoRequest
  <1>6. ASSUME NEW r \in Requests PROVE Consistent(r)
    BY <1>1 DEF Consistent, NoRequest
  <1> QED
    BY <1>3, <1>4, <1>5, <1>6 DEF IInv

\* The other requests are where they were, and so are their connections.
LEMMA OthersConsistent ==
    ASSUME IInv, NEW r \in Requests, NEW x \in RequestType,
           request' = [request EXCEPT ![r] = x],
           \A q \in Requests \ {r} : \A c \in Held(q) : setting'[c] = setting[c]
    PROVE  \A q \in Requests \ {r} : Consistent(q)'
  <1> SUFFICES ASSUME NEW q \in Requests \ {r} PROVE Consistent(q)'
    OBVIOUS
  <1>1. request'[q] = request[q] /\ request[q] \in RequestType
    BY DEF IInv
  <1>2. request[q].work # Nobody => setting'[request[q].work] = setting[request[q].work]
    BY DEF Held
  <1>3. Consistent(q)
    BY DEF IInv
  <1> QED
    BY <1>1, <1>2, <1>3 DEF Consistent, SettingOf, MayOpen

\* The answer gives back whatever the request held.
LEMMA AnswerIInv ==
    ASSUME IInv, NEW r \in Requests, Answer(r), RowsConsistent', changes' = changes
    PROVE  IInv'
  <1> USE AccessAssumption
  <1>1. NoRequest \in RequestType
    BY DEF NoRequest, RequestType, States, Row, NoRow, Targets
  <1>2. request' = [request EXCEPT ![r] = NoRequest] /\ request'[r] = NoRequest
    BY DEF Answer, IInv
  <1>3. \A q \in Requests \ {r} : request'[q] = request[q]
    BY <1>2 DEF IInv
  <1>4. setting' = [c \in Connections |-> IF c \in Held(r) THEN Unset ELSE setting[c]]
    BY DEF Answer, Reset
  <1>5. \A q \in Requests \ {r} : \A c \in Held(q) : setting'[c] = setting[c]
    <2> SUFFICES ASSUME NEW q \in Requests \ {r}, NEW c \in Held(q) PROVE setting'[c] = setting[c]
      OBVIOUS
    <2>1. c \notin Held(r)
      BY DEF IInv, PoolConsistent
    <2>2. c \in Connections
      BY DEF IInv, RequestType, Held
    <2> QED
      BY <1>4, <2>1, <2>2
  <1>6. \A q \in Requests : Consistent(q)'
    <2>1. Consistent(r)'
      BY <1>2 DEF Consistent, NoRequest
    <2> QED
      BY <1>1, <1>2, <1>5, <2>1, OthersConsistent
  <1>7. PoolConsistent'
    <2>1. Held(r)' = {} /\ \A q \in Requests \ {r} : Held(q)' = Held(q)
      BY <1>2, <1>3 DEF Held, NoRequest
    <2>2. ASSUME NEW c \in Connections, \A q \in Requests : request'[q].work # c
          PROVE  setting'[c] = Unset
      <3>1. CASE c \in Held(r)
        BY <1>4, <3>1
      <3>2. CASE c \notin Held(r)
        <4>1. c # Nobody
          OBVIOUS
        <4>2. \A q \in Requests : request[q].work # c
          BY <1>3, <2>2, <3>2, <4>1 DEF Held
        <4> QED
          BY <1>4, <3>2, <4>2 DEF IInv, PoolConsistent
      <3> QED
        BY <3>1, <3>2
    <2> QED
      BY <2>1, <2>2 DEF PoolConsistent, IInv
  <1>8. setting' \in [Connections -> [org : Targets, user : Users \cup {Nobody}]]
    BY <1>4 DEF IInv, Unset, Targets
  <1> QED
    BY <1>1, <1>2, <1>6, <1>7, <1>8 DEF IInv

\* A request that goes on, with the connections it held and perhaps a free one.
LEMMA ProceedIInv ==
    ASSUME IInv, NEW r \in Requests, NEW x \in RequestType,
           request' = [request EXCEPT ![r] = x],
           {x.auth, x.work} \ {Nobody} \subseteq Held(r) \cup Free,
           request[r].work = Nobody,
           x.work = Nobody => setting' = setting,
           x.work # Nobody =>
               /\ x.work \in Free
               /\ \E s \in [org : Targets, user : Users \cup {Nobody}] :
                     setting' = [setting EXCEPT ![x.work] = s],
           Consistent(r)',
           RowsConsistent', changes' = changes
    PROVE  IInv'
  <1> USE AccessAssumption
  <1>1. request'[r] = x /\ \A q \in Requests \ {r} : request'[q] = request[q]
    BY DEF IInv
  <1>2. \A q \in Requests \ {r} : Held(q)' = Held(q)
    BY <1>1 DEF Held
  <1>3. \A q \in Requests \ {r} : Held(r)' \cap Held(q) = {}
    <2>1. Held(r)' \subseteq Held(r) \cup Free
      BY <1>1 DEF Held
    <2>2. \A q \in Requests \ {r} : Held(r) \cap Held(q) = {} /\ Free \cap Held(q) = {}
      BY DEF IInv, PoolConsistent, Free
    <2> QED
      BY <2>1, <2>2
  <1>4. x.work \in Connections \cup {Nobody}
    BY DEF RequestType
  <1>5. \A c \in Connections : c # x.work => setting'[c] = setting[c]
    BY <1>4 DEF IInv
  <1>6. \A q \in Requests \ {r} : \A c \in Held(q) : setting'[c] = setting[c]
    <2> SUFFICES ASSUME NEW q \in Requests \ {r}, NEW c \in Held(q) PROVE setting'[c] = setting[c]
      OBVIOUS
    <2>1. c \in Connections
      BY DEF IInv, RequestType, Held
    <2>2. x.work # Nobody => x.work # c
      BY DEF Free
    <2> QED
      BY <1>5, <2>1, <2>2
  <1>7. \A q \in Requests : Consistent(q)'
    BY <1>6, OthersConsistent
  <1>8. PoolConsistent'
    <2>1. ASSUME NEW c \in Connections, \A q \in Requests : request'[q].work # c
          PROVE  setting'[c] = Unset
      <3>1. x.work # c /\ \A q \in Requests : request[q].work # c
        BY <1>1, <2>1
      <3> QED
        BY <1>5, <3>1 DEF IInv, PoolConsistent
    <2> QED
      BY <1>2, <1>3, <2>1 DEF PoolConsistent, IInv
  <1>9. setting' \in [Connections -> [org : Targets, user : Users \cup {Nobody}]]
    BY DEF IInv
  <1> QED
    BY <1>7, <1>8, <1>9 DEF IInv

-----------------------------------------------------------------------------
\* A request arrives: it holds nothing.
LEMMA ArriveIInv == ASSUME IInv, NEW r \in Requests, Arrive(r) PROVE IInv'
  <1> USE AccessAssumption
  <1> DEFINE x == request'[r]
  <1>1. NoRequest \in RequestType /\ NoRequest.auth = Nobody /\ NoRequest.work = Nobody
    BY DEF NoRequest, RequestType, States, Row, NoRow, Targets
  <1> DEFINE Arriving ==
        /\ request' = [request EXCEPT ![r] = x]
        /\ x \in RequestType /\ x.auth = Nobody /\ x.work = Nobody /\ x.pc \in {"login", "arrived"}
  <1>2. Arriving
    <2>0. /\ NoRequest \in RequestType /\ NoRequest.auth = Nobody /\ NoRequest.work = Nobody
          /\ {"login", "arrived"} \subseteq States
      BY <1>1 DEF States
    <2>1. ASSUME NEW u \in Users, ArriveLogin(r, u) PROVE Arriving
      <3>1. request' = [request EXCEPT ![r] = [NoRequest EXCEPT !.pc = "login", !.user = u]]
        BY <2>1 DEF ArriveLogin
      <3>1a. x = [NoRequest EXCEPT !.pc = "login", !.user = u]
        BY <2>1 DEF ArriveLogin, IInv
      <3>2. x \in RequestType
        BY <2>0, <3>1a DEF RequestType
      <3>3. x.pc = "login"
        BY <2>0, <3>1a DEF RequestType
      <3>4. x.auth = NoRequest.auth /\ x.work = NoRequest.work
        BY <2>0, <3>1a DEF RequestType
      <3> QED
        BY <2>0, <3>1, <3>1a, <3>2, <3>3, <3>4
    <2>2. ASSUME NEW u \in Users, NEW o \in Targets, ArriveWithCookie(r, u, o) PROVE Arriving
      <3>1. request' = [request EXCEPT ![r] = [NoRequest EXCEPT !.pc = "arrived", !.user = u, !.target = o]]
        BY <2>2 DEF ArriveWithCookie
      <3>1a. x = [NoRequest EXCEPT !.pc = "arrived", !.user = u, !.target = o]
        BY <2>2 DEF ArriveWithCookie, IInv
      <3>2. x \in RequestType
        BY <2>0, <3>1a DEF RequestType
      <3>3. x.pc = "arrived"
        BY <2>0, <3>1a DEF RequestType
      <3>4. x.auth = NoRequest.auth /\ x.work = NoRequest.work
        BY <2>0, <3>1a DEF RequestType
      <3> QED
        BY <2>0, <3>1, <3>1a, <3>2, <3>3, <3>4
    <2>3. ASSUME NEW t \in Tokens, NEW o \in Targets, ArriveWithToken(r, t, o) PROVE Arriving
      <3>1. request' = [request EXCEPT ![r] = [NoRequest EXCEPT !.pc = "arrived", !.token = t, !.target = o]]
        BY <2>3 DEF ArriveWithToken
      <3>1a. x = [NoRequest EXCEPT !.pc = "arrived", !.token = t, !.target = o]
        BY <2>3 DEF ArriveWithToken, IInv
      <3>2. x \in RequestType
        BY <2>0, <3>1a DEF RequestType
      <3>3. x.pc = "arrived"
        BY <2>0, <3>1a DEF RequestType
      <3>4. x.auth = NoRequest.auth /\ x.work = NoRequest.work
        BY <2>0, <3>1a DEF RequestType
      <3> QED
        BY <2>0, <3>1, <3>1a, <3>2, <3>3, <3>4
    <2> QED
      BY <2>1, <2>2, <2>3 DEF Arrive
  <1>3. request[r].pc = "idle" /\ UNCHANGED <<rows, setting, changes>>
    BY DEF Arrive, ArriveLogin, ArriveWithCookie, ArriveWithToken
  <1>4. request[r].work = Nobody
    BY <1>3 DEF IInv, Consistent
  <1>6. Consistent(r)'
    BY <1>2 DEF Consistent
  <1>7. RowsConsistent'
    BY <1>3 DEF rows, IInv, RowsConsistent, Present
  <1> HIDE DEF x
  <1> QED
    BY <1>2, <1>3, <1>4, <1>6, <1>7, ProceedIInv

\* A request is taken one step further by the API.
LEMMA ServeIInv == ASSUME IInv, NEW r \in Requests, Serve(r) PROVE IInv'
  <1> USE AccessAssumption
  <1>0. /\ request[r] \in RequestType /\ Consistent(r)
        /\ changes' = changes
    BY DEF IInv, Serve, Authenticate, WriteSession, ResolveCookie, ResolveToken, TouchToken,
           OpenOrgContext, OpenUserContext, CheckMembership, Finish, PoolTimeout
  <1>1. RowsConsistent'
    <2>1. CASE WriteSession(r)
      BY <2>1 DEF WriteSession, IInv, RowsConsistent, Present
    <2>2. CASE ~WriteSession(r)
      <3>1. UNCHANGED rows
        BY <2>2 DEF Serve, Authenticate, ResolveCookie, ResolveToken, TouchToken,
           OpenOrgContext, OpenUserContext, CheckMembership, Finish, PoolTimeout
      <3> QED
        BY <3>1 DEF rows, IInv, RowsConsistent, Present
    <2> QED
      BY <2>1, <2>2
  <1>2. CASE Answer(r)
    BY <1>0, <1>1, <1>2, AnswerIInv
  <1>3. CASE ~Answer(r)
    <2> DEFINE x == request'[r]
    <2>1. CASE Authenticate(r) \/ ResolveCookie(r) \/ ResolveToken(r)
      <3>1. /\ request[r].pc \in {"login", "arrived"} /\ setting' = setting
            /\ request[r].work = Nobody
        BY <1>0, <2>1 DEF Authenticate, ResolveCookie, ResolveToken, Consistent
      <3>2. CASE request' = [request EXCEPT ![r] = NoRequest]
        <4>1. /\ NoRequest \in RequestType /\ NoRequest.auth = Nobody /\ NoRequest.work = Nobody
              /\ NoRequest.pc = "idle"
          BY DEF NoRequest, RequestType, States, Row, NoRow, Targets
        <4>2. request'[r] = NoRequest
          BY <3>2 DEF IInv
        <4>3. Consistent(r)'
          BY <4>1, <4>2 DEF Consistent
        <4> QED
          BY <1>0, <1>1, <3>1, <3>2, <4>1, <4>3, ProceedIInv
      <3>3. ASSUME NEW c \in Free, NEW p \in {"write", "context", "touch"},
                   NEW u \in Users \cup {Nobody}, NEW row \in Row, NEW s \in Orgs \cup {Nobody},
                   p # "write" /\ request[r].token # Nobody => s = Scope[request[r].token],
                   request' = [request EXCEPT ![r] = Authenticated(r, p, u, row, s, c)]
            PROVE  IInv'
        <4> DEFINE y == Authenticated(r, p, u, row, s, c)
        <4>1. request' = [request EXCEPT ![r] = y] /\ request'[r] = y
          BY <3>3 DEF IInv
        <4>2. p \in States /\ c \in Connections
          BY DEF States, Free
        <4>3. /\ y \in RequestType /\ y.pc = p /\ y.auth = c /\ y.work = Nobody
              /\ y.scope = s /\ y.token = request[r].token
          BY <1>0, <3>1, <4>2 DEF RequestType, Authenticated
        <4>4. Consistent(r)'
          BY <3>3, <4>1, <4>3 DEF Consistent
        <4> HIDE DEF y
        <4> QED
          BY <1>0, <1>1, <3>1, <4>1, <4>3, <4>4, ProceedIInv
      <3>4. request[r].user \in Users \cup {Nobody} /\ request[r].row \in Row
            /\ request[r].scope \in Orgs \cup {Nobody}
        BY <1>0 DEF RequestType
      <3>5. CASE Authenticate(r)
        <4>1. ASSUME NEW c \in Free,
                     request' = [request EXCEPT ![r] = [@ EXCEPT !.pc = "write", !.auth = c]]
              PROVE  IInv'
          <5>1. [request[r] EXCEPT !.pc = "write", !.auth = c] =
                Authenticated(r, "write", request[r].user, request[r].row, request[r].scope, c)
            BY <1>0 DEF RequestType, Authenticated
          <5> QED
            BY <3>3, <3>4, <4>1, <5>1
        <4> QED
          BY <3>2, <3>5, <4>1 DEF Authenticate
      <3>6. CASE ResolveCookie(r)
        <4>1. ASSUME NEW c \in Free,
                     request' = [request EXCEPT ![r] = [@ EXCEPT !.pc = "context", !.auth = c]]
              PROVE  IInv'
          <5>1. [request[r] EXCEPT !.pc = "context", !.auth = c] =
                Authenticated(r, "context", request[r].user, request[r].row, request[r].scope, c)
            BY <1>0 DEF RequestType, Authenticated
          <5>2. request[r].token = Nobody
            BY <3>6 DEF ResolveCookie
          <5> QED
            BY <3>3, <3>4, <4>1, <5>1, <5>2
        <4> QED
          BY <3>2, <3>6, <4>1 DEF ResolveCookie
      <3>7. CASE ResolveToken(r)
        <4> DEFINE t == request[r].token
        <4>1. /\ t \in Tokens /\ tokens[t] \in Row /\ Scope[t] \in Orgs \cup {Nobody}
              /\ tokens[t].user \in Users \cup {Nobody}
          BY <1>0, <3>7 DEF ResolveToken, RequestType, IInv, RowsConsistent, Row
        <4>2. ASSUME NEW c \in Free,
                     request' = [request EXCEPT ![r] =
                         [@ EXCEPT !.pc = "touch", !.user = tokens[t].user, !.row = tokens[t],
                                   !.scope = Scope[t], !.auth = c]]
              PROVE  IInv'
          <5>1. request' = [request EXCEPT ![r] =
                               Authenticated(r, "touch", tokens[t].user, tokens[t], Scope[t], c)]
            BY <4>2 DEF Authenticated
          <5> QED
            BY <3>3, <4>1, <5>1
        <4> QED
          BY <3>2, <3>7, <4>2 DEF ResolveToken
      <3> QED
        BY <2>1, <3>5, <3>6, <3>7
    <2>2. CASE TouchToken(r)
      <3> DEFINE y == [request[r] EXCEPT !.pc = "context", !.row = NoRow, !.auth = Nobody]
      <3>1. request' = [request EXCEPT ![r] = y] /\ request'[r] = y /\ setting' = setting
        BY <1>3, <2>2 DEF TouchToken, IInv
      <3>2. request[r].pc = "touch" /\ request[r].work = Nobody
        BY <1>0, <2>2 DEF TouchToken, Consistent
      <3>3. /\ y \in RequestType /\ y.auth = Nobody /\ y.work = Nobody /\ y.pc = "context"
            /\ y.scope = request[r].scope /\ y.token = request[r].token
        <4>1. NoRow \in Row /\ "context" \in States
          BY DEF NoRow, Row, States
        <4> QED
          BY <1>0, <3>2, <4>1 DEF RequestType
      <3>4. Consistent(r)'
        BY <1>0, <3>1, <3>2, <3>3 DEF Consistent
      <3> HIDE DEF y
      <3> QED
        BY <1>0, <1>1, <3>1, <3>2, <3>3, <3>4, ProceedIInv
    <2>3. CASE OpenOrgContext(r)
      <3>1. PICK c \in Free :
               /\ MayOpen(r)
               /\ setting' = [setting EXCEPT ![c].org = request[r].target]
               /\ request' = [request EXCEPT ![r] = [@ EXCEPT !.pc = "scoped", !.work = c]]
        BY <1>3, <2>3 DEF OpenOrgContext
      <3> DEFINE y == [request[r] EXCEPT !.pc = "scoped", !.work = c]
      <3>2. request' = [request EXCEPT ![r] = y] /\ request'[r] = y
        BY <3>1 DEF IInv
      <3>3. request[r].pc = "context" /\ request[r].work = Nobody
        BY <1>0, <2>3 DEF OpenOrgContext, Consistent
      <3>4. c \in Connections /\ c # Nobody /\ c \notin Held(r)
            /\ \A q \in Requests : request[q].work # c
        BY DEF Free, Held
      <3>5. setting[c] = Unset
        BY <3>4 DEF IInv, PoolConsistent
      <3>6. setting' = [setting EXCEPT ![c] = [org |-> request[r].target, user |-> Nobody]]
        <4>1. [setting[c] EXCEPT !.org = request[r].target] = [org |-> request[r].target, user |-> Nobody]
          BY <3>5 DEF Unset
        <4>2. setting' = [setting EXCEPT ![c] = [setting[c] EXCEPT !.org = request[r].target]]
          BY <3>1
        <4> QED
          BY <4>1, <4>2
      <3>7. /\ y \in RequestType /\ y.work = c /\ y.auth = request[r].auth /\ y.pc = "scoped"
            /\ y.scope = request[r].scope /\ y.token = request[r].token
            /\ y.target = request[r].target /\ y.target \in Orgs
        BY <1>0, <3>1, <3>4 DEF RequestType, States, MayOpen
      <3>8. setting'[c] = [org |-> y.target, user |-> Nobody]
        BY <3>4, <3>6, <3>7 DEF IInv
      <3>9. Consistent(r)'
        BY <1>0, <3>1, <3>2, <3>3, <3>4, <3>7, <3>8 DEF Consistent, SettingOf, MayOpen
      <3>10. [org |-> request[r].target, user |-> Nobody] \in [org : Targets, user : Users \cup {Nobody}]
        BY <1>0 DEF RequestType
      <3>11. {y.auth, y.work} \ {Nobody} \subseteq Held(r) \cup Free
        BY <3>7 DEF Held
      <3> HIDE DEF y
      <3> QED
        BY <1>0, <1>1, <3>2, <3>3, <3>4, <3>6, <3>7, <3>9, <3>10, <3>11, ProceedIInv
    <2>4. CASE OpenUserContext(r)
      <3>1. PICK c \in Free :
               /\ setting' = [setting EXCEPT ![c] = [org |-> NilOrg, user |-> request[r].user]]
               /\ request' = [request EXCEPT ![r] = [@ EXCEPT !.pc = "working", !.work = c]]
        BY <2>4 DEF OpenUserContext
      <3> DEFINE y == [request[r] EXCEPT !.pc = "working", !.work = c]
      <3>2. request' = [request EXCEPT ![r] = y] /\ request'[r] = y
        BY <3>1 DEF IInv
      <3>3. request[r].pc = "context" /\ request[r].work = Nobody /\ request[r].target = Nobody
        BY <1>0, <2>4 DEF OpenUserContext, Consistent
      <3>4. c \in Connections /\ c # Nobody
        BY DEF Free
      <3>5. /\ y \in RequestType /\ y.work = c /\ y.auth = request[r].auth /\ y.pc = "working"
            /\ y.scope = request[r].scope /\ y.token = request[r].token
            /\ y.target = Nobody /\ y.user = request[r].user
        BY <1>0, <3>3, <3>4 DEF RequestType, States
      <3>6. setting'[c] = [org |-> NilOrg, user |-> y.user]
        BY <3>1, <3>4, <3>5 DEF IInv
      <3>7. Consistent(r)'
        BY <1>0, <3>2, <3>3, <3>4, <3>5, <3>6 DEF Consistent, SettingOf
      <3>8. [org |-> NilOrg, user |-> request[r].user] \in [org : Targets, user : Users \cup {Nobody}]
        BY <1>0 DEF RequestType, NilOrg, Targets
      <3>9. {y.auth, y.work} \ {Nobody} \subseteq Held(r) \cup Free
        BY <3>5 DEF Held
      <3> HIDE DEF y
      <3> QED
        BY <1>0, <1>1, <3>1, <3>2, <3>3, <3>4, <3>5, <3>7, <3>8, <3>9, ProceedIInv
    <2>5. CASE CheckMembership(r)
      <3>1. /\ request' = [request EXCEPT ![r].pc = "working"] /\ setting' = setting
            /\ request[r].pc = "scoped"
        BY <1>3, <2>5 DEF CheckMembership
      <3> DEFINE y == [request[r] EXCEPT !.pc = "working"]
      <3>2. request' = [request EXCEPT ![r] = y] /\ request'[r] = y
        BY <3>1 DEF IInv
      <3>3. /\ y \in RequestType /\ y.work = request[r].work /\ y.auth = request[r].auth
            /\ y.pc = "working" /\ y.scope = request[r].scope /\ y.token = request[r].token
            /\ y.target = request[r].target /\ y.user = request[r].user
        BY <1>0 DEF RequestType, States
      <3>4. Consistent(r)'
        BY <1>0, <3>1, <3>2, <3>3 DEF Consistent, SettingOf, MayOpen
      <3>5. \A q \in Requests \ {r} : Consistent(q)'
        BY <3>1, <3>2, <3>3, OthersConsistent
      <3>6. \A q \in Requests : request'[q].work = request[q].work /\ Held(q)' = Held(q)
        BY <3>2, <3>3 DEF Held, IInv
      <3>7. PoolConsistent'
        BY <3>1, <3>6 DEF PoolConsistent, IInv
      <3>8. request' \in [Requests -> RequestType]
        BY <3>2, <3>3 DEF IInv
      <3> QED
        BY <1>0, <1>1, <3>1, <3>4, <3>5, <3>7, <3>8 DEF IInv
    <2>6. Serve(r) => Answer(r) \/ Authenticate(r) \/ ResolveCookie(r) \/ ResolveToken(r)
             \/ TouchToken(r) \/ OpenOrgContext(r) \/ OpenUserContext(r) \/ CheckMembership(r)
      BY DEF Serve, WriteSession, Finish, PoolTimeout
    <2> QED
      BY <1>3, <2>1, <2>2, <2>3, <2>4, <2>5, <2>6
  <1> QED
    BY <1>2, <1>3

\* The administrator's rows stay consistent and leave the requests alone.
LEMMA RowsIInv ==
    ASSUME IInv, UNCHANGED serving, RowsConsistent', changes' \in 0 .. MaxChanges
    PROVE  IInv'
  BY DEF IInv, serving, PoolConsistent, Held, Consistent, SettingOf, MayOpen

\* The administrator's transactions keep the rows consistent with each other.
LEMMA AdministerIInv == IInv /\ Administer => IInv'
  <1> SUFFICES ASSUME IInv, Administer PROVE IInv'
    OBVIOUS
  <1> USE AccessAssumption
  <1>1. ASSUME NEW u \in Users, CreateUser(u) PROVE IInv'
    <2>1. Present' = Present \cup {u} /\ users' \in [Users -> {"new", "present", "deleted"}]
      BY <1>1 DEF CreateUser, Present, IInv, RowsConsistent
    <2>2. RowsConsistent'
      BY <1>1, <2>1 DEF CreateUser, IInv, RowsConsistent
    <2> QED
      BY <1>1, <2>2, RowsIInv DEF CreateUser, serving, IInv
  <1>2. ASSUME NEW u \in Users, DeleteUser(u) PROVE IInv'
    <2>1. Present' = Present \ {u} /\ users' \in [Users -> {"new", "present", "deleted"}]
      BY <1>2 DEF DeleteUser, Present, IInv, RowsConsistent
    <2>2. members' \subseteq Present' \X Orgs /\ sessions' \subseteq Present'
      BY <1>2, <2>1 DEF DeleteUser, IInv, RowsConsistent
    <2>3. tokens' \in [Tokens -> Row]
      BY <1>2 DEF DeleteUser, IInv, RowsConsistent, DeletedRow, NoRow, Row
    <2>4. \A t \in Tokens : tokens'[t] \in {NoRow, DeletedRow} \/ tokens'[t].user \in Present'
      BY <1>2, <2>1 DEF DeleteUser, IInv, RowsConsistent
    <2> QED
      BY <1>2, <2>1, <2>2, <2>3, <2>4, RowsIInv DEF DeleteUser, RowsConsistent, serving, IInv
  <1>3. ASSUME NEW u \in Users, NEW o \in Orgs, AddMembership(u, o) \/ RemoveMembership(u, o)
        PROVE  IInv'
    <2>1. RowsConsistent'
      BY <1>3 DEF AddMembership, RemoveMembership, IInv, RowsConsistent, Present
    <2> QED
      BY <1>3, <2>1, RowsIInv DEF AddMembership, RemoveMembership, serving, IInv
  <1>4. ASSUME NEW t \in Tokens, NEW u \in Users, CreateApiToken(t, u) PROVE IInv'
    <2>1. tokens' \in [Tokens -> Row] /\ tokens'[t].user = u /\ u \in Present
      BY <1>4 DEF CreateApiToken, IInv, RowsConsistent, NoRow, Row
    <2>2. RowsConsistent'
      BY <1>4, <2>1 DEF CreateApiToken, IInv, RowsConsistent, Present
    <2> QED
      BY <1>4, <2>2, RowsIInv DEF CreateApiToken, serving, IInv
  <1>5. ASSUME NEW t \in Tokens, RevokeApiToken(t) PROVE IInv'
    <2>1. /\ tokens' \in [Tokens -> Row] /\ tokens'[t].user = tokens[t].user
          /\ tokens[t].user # Nobody
      BY <1>5 DEF RevokeApiToken, Exists, IInv, RowsConsistent, Row
    <2>2. tokens[t].user \in Present
      BY <2>1 DEF IInv, RowsConsistent, NoRow, DeletedRow
    <2>3. RowsConsistent'
      BY <1>5, <2>1, <2>2 DEF RevokeApiToken, IInv, RowsConsistent, Present
    <2> QED
      BY <1>5, <2>3, RowsIInv DEF RevokeApiToken, serving, IInv
  <1> QED
    BY <1>1, <1>2, <1>3, <1>4, <1>5 DEF Administer

\* Every step keeps requests, pool and rows consistent.
LEMMA NextIInv == IInv /\ [Next]_vars => IInv'
  <1> SUFFICES ASSUME IInv, [Next]_vars PROVE IInv'
    OBVIOUS
  <1>1. ASSUME NEW r \in Requests, Arrive(r) \/ Serve(r) PROVE IInv'
    BY <1>1, ArriveIInv, ServeIInv
  <1>2. ASSUME NEW u \in Users, SessionEnds(u) PROVE IInv'
    <2>1. RowsConsistent'
      BY <1>2 DEF SessionEnds, IInv, RowsConsistent, Present
    <2> QED
      BY <1>2, <2>1, RowsIInv DEF SessionEnds, serving, IInv
  <1>3. CASE Administer
    BY <1>3, AdministerIInv
  <1>4. CASE UNCHANGED vars
    <2>1. RowsConsistent'
      BY <1>4 DEF vars, IInv, RowsConsistent, Present
    <2> QED
      BY <1>4, <2>1, RowsIInv DEF vars, serving, IInv
  <1> QED
    BY <1>1, <1>2, <1>3, <1>4 DEF Next

-----------------------------------------------------------------------------
\* Requests, connections and rows are consistent in every reachable state.
THEOREM Invariance == Spec => []IInv
  BY InitIInv, NextIInv, PTL DEF Spec

\* The variables have their types, and no connection serves two requests
\* (db/engine.py, the pool).
THEOREM TypeCorrect == Spec => []TypeOK
  <1>1. IInv => TypeOK
    BY AccessAssumption DEF IInv, TypeOK, RowsConsistent, PoolConsistent, RequestType, States
  <1> QED
    BY <1>1, Invariance, PTL

\* Row-level security shows a request its own rows, whatever the connection
\* served before (db/session.py:3).
THEOREM OwnRowsOnly == Spec => []ReadsOwnRowsOnly
  <1>1. IInv => ReadsOwnRowsOnly
    <2> SUFFICES ASSUME IInv PROVE ReadsOwnRowsOnly
      OBVIOUS
    <2> USE AccessAssumption
    <2>1. \A c \in Free : setting[c] = Unset
      <3> SUFFICES ASSUME NEW c \in Free PROVE setting[c] = Unset
        OBVIOUS
      <3>1. c \in Connections /\ \A r \in Requests : request[r].work # c
        BY DEF Free, Held
      <3> QED
        BY <3>1 DEF IInv, PoolConsistent
    <2>2. ASSUME NEW r \in Requests, request[r].pc = "working",
                 NEW m \in VisibleMembers(request[r].work)
          PROVE  IF request[r].target = Nobody THEN m[1] = request[r].user
                                               ELSE m[2] = request[r].target
      <3>1. m \in members /\ m[1] \in Users /\ m[2] \in Orgs
        BY <2>2 DEF VisibleMembers, IInv, RowsConsistent, Present
      <3>2. setting[request[r].work] = SettingOf(r)
        BY <2>2 DEF IInv, Consistent
      <3>3. m[2] = SettingOf(r).org \/ m[1] = SettingOf(r).user
        BY <2>2, <3>2 DEF VisibleMembers
      <3> QED
        BY <3>1, <3>3 DEF SettingOf, NilOrg
    <2> QED
      BY <2>1, <2>2 DEF ReadsOwnRowsOnly
  <1> QED
    BY <1>1, Invariance, PTL

\* A scoped token opens no other organisation (orgs/dependencies.py:117).
THEOREM ScopedTokens == Spec => []ScopeHolds
  <1>1. IInv => ScopeHolds
    BY DEF IInv, Consistent, MayOpen, ScopeHolds
  <1> QED
    BY <1>1, Invariance, PTL

\* Who gets to work in an organisation is its member at that moment
\* (orgs/dependencies.py:108).
THEOREM MembersOnly == Spec => EntersAsMember
  <1> DEFINE Enters(r) == request[r].pc # "working" /\ request'[r].pc = "working"
                          /\ request'[r].target # Nobody
             A == \A r \in Requests :
                     Enters(r) => <<request'[r].user, request'[r].target>> \in members
  <1>1. IInv /\ [Next]_vars => A
    <2> SUFFICES ASSUME IInv, [Next]_vars, NEW r \in Requests, Enters(r)
                 PROVE  <<request'[r].user, request'[r].target>> \in members
      OBVIOUS
    <2> USE AccessAssumption
    <2>0. request \in [Requests -> RequestType]
      BY DEF IInv
    <2>1. request[r] \in RequestType /\ Consistent(r)
      BY DEF IInv
    <2>2. CheckMembership(r)
      <3>1. PICK q \in Requests : Arrive(q) \/ Serve(q)
        BY DEF Next, vars, SessionEnds, Administer, CreateUser, DeleteUser, AddMembership,
               RemoveMembership, CreateApiToken, RevokeApiToken, serving
      <3>2. q = r
        BY <3>1 DEF Arrive, ArriveLogin, ArriveWithCookie, ArriveWithToken, Serve, Authenticate,
               WriteSession, ResolveCookie, ResolveToken, TouchToken, OpenOrgContext, Answer,
               OpenUserContext, CheckMembership, Finish, PoolTimeout, IInv
      <3>3. ~Arrive(r)
        <4>1. ASSUME NEW u \in Users PROVE ~ArriveLogin(r, u)
          BY <2>0 DEF ArriveLogin, NoRequest
        <4>2. ASSUME NEW u \in Users, NEW o \in Targets PROVE ~ArriveWithCookie(r, u, o)
          BY <2>0 DEF ArriveWithCookie, NoRequest
        <4>3. ASSUME NEW t \in Tokens, NEW o \in Targets PROVE ~ArriveWithToken(r, t, o)
          BY <2>0 DEF ArriveWithToken, NoRequest
        <4> QED
          BY <4>1, <4>2, <4>3 DEF Arrive
      <3>4. ~Answer(r)
        BY <2>0 DEF Answer, NoRequest
      <3>5. ~OpenUserContext(r)
        <4> SUFFICES ASSUME OpenUserContext(r) PROVE FALSE
          OBVIOUS
        <4>1. PICK c \in Free :
                 request' = [request EXCEPT ![r] = [request[r] EXCEPT !.pc = "working", !.work = c]]
          BY DEF OpenUserContext
        <4>2. request'[r] = [request[r] EXCEPT !.pc = "working", !.work = c]
          BY <2>0, <4>1
        <4>3. request'[r].target = request[r].target
          BY <2>1, <4>2 DEF RequestType
        <4> QED
          BY <4>3 DEF OpenUserContext
      <3>6. ASSUME NEW x, request' = [request EXCEPT ![r] = x] PROVE request'[r] = x
        BY <2>0, <3>6
      <3>6a. NoRequest.pc = "idle"
        BY DEF NoRequest
      <3>7. ~Authenticate(r)
        <4> SUFFICES ASSUME Authenticate(r) PROVE FALSE
          OBVIOUS
        <4>1. PICK c \in Free : request'[r] \in {NoRequest, [request[r] EXCEPT !.pc = "write", !.auth = c]}
          BY <3>6 DEF Authenticate
        <4> QED
          BY <2>1, <3>6a, <4>1 DEF RequestType
      <3>8. ~ResolveCookie(r)
        <4> SUFFICES ASSUME ResolveCookie(r) PROVE FALSE
          OBVIOUS
        <4>1. PICK c \in Free : request'[r] \in {NoRequest, [request[r] EXCEPT !.pc = "context", !.auth = c]}
          BY <3>6 DEF ResolveCookie
        <4> QED
          BY <2>1, <3>6a, <4>1 DEF RequestType
      <3>9. ~ResolveToken(r)
        <4> SUFFICES ASSUME ResolveToken(r) PROVE FALSE
          OBVIOUS
        <4> DEFINE row == tokens[request[r].token]
        <4>1. PICK c \in Free : request'[r] \in {NoRequest,
                 [request[r] EXCEPT !.pc = "touch", !.user = row.user, !.row = row,
                                    !.scope = Scope[request[r].token], !.auth = c]}
          BY <3>6 DEF ResolveToken
        <4> QED
          BY <2>1, <3>6a, <4>1 DEF RequestType
      <3>10. ~TouchToken(r)
        BY <2>1, <3>4, <3>6 DEF TouchToken, RequestType
      <3>11. ~OpenOrgContext(r)
        BY <2>1, <3>4, <3>6 DEF OpenOrgContext, RequestType
      <3> QED
        BY <3>1, <3>2, <3>3, <3>4, <3>5, <3>7, <3>8, <3>9, <3>10, <3>11
           DEF Serve, WriteSession, Finish, PoolTimeout
    <2>3. /\ request[r].pc = "scoped"
          /\ request'[r].user = request[r].user /\ request'[r].target = request[r].target
      BY <2>1, <2>2 DEF CheckMembership, Answer, NoRequest, IInv, RequestType
    <2>4. Cardinality({m \in VisibleMembers(request[r].work) : m[1] = request[r].user}) = 1
      BY <2>2 DEF CheckMembership, Answer, NoRequest, IInv
    <2>5. PICK m \in VisibleMembers(request[r].work) : m[1] = request[r].user
      <3> DEFINE S == {m \in VisibleMembers(request[r].work) : m[1] = request[r].user}
      <3>1. Cardinality(S) = 1
        BY <2>4
      <3>2. S # {}
        <4> HIDE DEF S
        <4> QED
          BY <3>1, FS_EmptySet
      <3> QED
        BY <3>2
    <2>6. setting[request[r].work] = [org |-> request[r].target, user |-> Nobody]
      BY <2>1, <2>3 DEF Consistent, SettingOf
    <2>7. m \in members /\ m \in Users \X Orgs
      BY DEF VisibleMembers, IInv, RowsConsistent, Present
    <2>8. m[2] = request[r].target
      BY <2>6, <2>7 DEF VisibleMembers
    <2> QED
      BY <2>3, <2>5, <2>7, <2>8
  <1>2. IInv /\ [Next]_vars => [A]_vars
    BY <1>1
  <1> QED
    BY <1>2, Invariance, PTL DEF Spec, EntersAsMember

\* A revoked token stays revoked (admin/router.py:255).
THEOREM RevokedForGood == Spec => RevocationSticks
  <1>1. IInv /\ [Next]_vars => [\A t \in Tokens : ~tokens[t].valid => ~tokens'[t].valid]_vars
    <2> SUFFICES ASSUME IInv, Next, NEW t \in Tokens, ~tokens[t].valid PROVE ~tokens'[t].valid
      OBVIOUS
    <2>1. CASE UNCHANGED tokens
      BY <2>1
    <2>2. ASSUME NEW u \in Users, DeleteUser(u) PROVE ~tokens'[t].valid
      BY <2>2 DEF DeleteUser, DeletedRow, NoRow
    <2>3. ASSUME NEW s \in Tokens, NEW u \in Users, CreateApiToken(s, u) PROVE ~tokens'[t].valid
      BY <2>3 DEF CreateApiToken, NoRow, IInv, RowsConsistent, Row
    <2>4. ASSUME NEW s \in Tokens, RevokeApiToken(s) PROVE ~tokens'[t].valid
      BY <2>4 DEF RevokeApiToken, IInv, RowsConsistent, Row
    <2> QED
      BY <2>1, <2>2, <2>3, <2>4 DEF Next, Arrive, ArriveLogin, ArriveWithCookie, ArriveWithToken,
         Serve, Authenticate, WriteSession, ResolveCookie, ResolveToken, TouchToken, OpenOrgContext,
         OpenUserContext, CheckMembership, Finish, PoolTimeout, SessionEnds, Administer,
         CreateUser, AddMembership, RemoveMembership, rows
  <1> QED
    BY <1>1, Invariance, PTL DEF Spec, RevocationSticks

-----------------------------------------------------------------------------
(* Requests that end. *)

\* The steps a request has before it, by how far it is.
StepsLeft(r) == CASE request[r].pc = "arrived" -> 5
                  [] request[r].pc = "touch" -> 4
                  [] request[r].pc = "context" -> 3
                  [] request[r].pc \in {"scoped", "login"} -> 2
                  [] request[r].pc \in {"working", "write"} -> 1
                  [] OTHER -> 0

\* A request is moved by its own steps only, and each brings it nearer to its
\* answer.
RequestsGoOn ==
    [][\A r \in Requests :
         /\ Serve(r) => StepsLeft(r)' < StepsLeft(r)
         /\ request'[r] = request[r] \/ Serve(r) \/ (request[r].pc = "idle" /\ Arrive(r))]_vars

\* Where a step of the API takes a request.
LEMMA ServeGoesTo ==
  ASSUME IInv, NEW r \in Requests, Serve(r)
  PROVE  /\ \A q \in Requests \ {r} : request'[q] = request[q]
         /\ \/ request[r].pc \in States \ {"idle"} /\ request'[r].pc = "idle"
            \/ request[r].pc = "login" /\ request'[r].pc = "write"
            \/ request[r].pc = "arrived" /\ request'[r].pc \in {"context", "touch"}
            \/ request[r].pc = "touch" /\ request'[r].pc = "context"
            \/ request[r].pc = "context" /\ request'[r].pc \in {"scoped", "working"}
            \/ request[r].pc = "scoped" /\ request'[r].pc = "working"
  <1>0. request \in [Requests -> RequestType] /\ request[r] \in RequestType
    BY DEF IInv
  <1>1. CASE request' = [request EXCEPT ![r] = NoRequest]
    <2>1. request[r].pc \in States \ {"idle"}
      BY DEF States, Serve, Authenticate, WriteSession, ResolveCookie, ResolveToken, TouchToken,
             OpenOrgContext, OpenUserContext, CheckMembership, Finish, PoolTimeout
    <2> QED
      BY <1>0, <1>1, <2>1 DEF NoRequest
  <1>2. CASE request' # [request EXCEPT ![r] = NoRequest]
    <2>1. CASE Authenticate(r) \/ ResolveCookie(r)
      <3>1. PICK c \in Free : \/ /\ request[r].pc = "login"
                                 /\ request' = [request EXCEPT ![r] =
                                                   [@ EXCEPT !.pc = "write", !.auth = c]]
                              \/ /\ request[r].pc = "arrived"
                                 /\ request' = [request EXCEPT ![r] =
                                                   [@ EXCEPT !.pc = "context", !.auth = c]]
        BY <1>2, <2>1 DEF Authenticate, ResolveCookie
      <3>2. CASE request[r].pc = "login"
        BY <1>0, <3>1, <3>2 DEF RequestType
      <3>3. CASE request[r].pc = "arrived"
        BY <1>0, <3>1, <3>3 DEF RequestType
      <3> QED
        BY <3>1, <3>2, <3>3
    <2>2. CASE ResolveToken(r)
      <3> DEFINE row == tokens[request[r].token]
                 s == Scope[request[r].token]
      <3>1. request[r].pc = "arrived"
        BY <2>2 DEF ResolveToken
      <3>2. PICK c \in Free :
              request' = [request EXCEPT ![r] =
                  [@ EXCEPT !.pc = "touch", !.user = row.user, !.row = row, !.scope = s, !.auth = c]]
        BY <1>2, <2>2 DEF ResolveToken
      <3> HIDE DEF row, s
      <3> QED
        BY <1>0, <3>1, <3>2 DEF RequestType
    <2>3. CASE TouchToken(r)
      <3>1. /\ request[r].pc = "touch"
            /\ request' = [request EXCEPT ![r] = [@ EXCEPT !.pc = "context", !.row = NoRow,
                                                          !.auth = Nobody]]
        BY <1>2, <2>3 DEF TouchToken, Answer
      <3> QED
        BY <1>0, <3>1 DEF RequestType
    <2>4. CASE OpenOrgContext(r) \/ OpenUserContext(r)
      <3>1. request[r].pc = "context" /\ \E c, p :
              /\ p \in {"scoped", "working"}
              /\ request' = [request EXCEPT ![r] = [@ EXCEPT !.pc = p, !.work = c]]
        BY <1>2, <2>4 DEF OpenOrgContext, OpenUserContext, Answer
      <3> QED
        BY <1>0, <3>1 DEF RequestType
    <2>5. CASE CheckMembership(r)
      BY <1>0, <1>2, <2>5 DEF CheckMembership, Answer, RequestType
    <2>6. ~(WriteSession(r) \/ Finish(r) \/ PoolTimeout(r))
      BY <1>2 DEF WriteSession, Finish, PoolTimeout, Answer
    <2> QED
      BY <2>1, <2>2, <2>3, <2>4, <2>5, <2>6 DEF Serve
  <1> QED
    BY <1>1, <1>2

\* A request is answered after five steps of its own at most, whatever the
\* others and the administrator do meanwhile, and nobody sends it back: the
\* half of "no request waits forever" that NobodyIsStuck leaves open
\* (auth/dependencies.py:101, orgs/dependencies.py:83).
THEOREM RequestsEnd == Spec => RequestsGoOn /\ [](\A r \in Requests : StepsLeft(r) \in 0 .. 5)
  <1>1. IInv /\ [Next]_vars =>
          [\A r \in Requests :
             /\ Serve(r) => StepsLeft(r)' < StepsLeft(r)
             /\ request'[r] = request[r] \/ Serve(r) \/ (request[r].pc = "idle" /\ Arrive(r))]_vars
    <2> SUFFICES ASSUME IInv, Next, NEW r \in Requests
                 PROVE  /\ Serve(r) => StepsLeft(r)' < StepsLeft(r)
                        /\ \/ request'[r] = request[r] \/ Serve(r)
                           \/ request[r].pc = "idle" /\ Arrive(r)
      OBVIOUS
    <2>1. Serve(r) => StepsLeft(r)' < StepsLeft(r)
      BY ServeGoesTo DEF StepsLeft, States
    <2>2. request'[r] = request[r] \/ Serve(r) \/ (request[r].pc = "idle" /\ Arrive(r))
      <3>1. ASSUME NEW q \in Requests, Serve(q)
            PROVE  request'[r] = request[r] \/ Serve(r)
        BY <3>1, ServeGoesTo
      <3>2. ASSUME NEW q \in Requests, Arrive(q)
            PROVE  request'[r] = request[r] \/ (request[r].pc = "idle" /\ Arrive(r))
        BY <3>2 DEF IInv, Arrive, ArriveLogin, ArriveWithCookie, ArriveWithToken
      <3>3. CASE Administer \/ \E u \in Users : SessionEnds(u)
        BY <3>3 DEF Administer, SessionEnds, CreateUser, DeleteUser, AddMembership,
                    RemoveMembership, CreateApiToken, RevokeApiToken, serving
      <3> QED
        BY <3>1, <3>2, <3>3 DEF Next
    <2> QED
      BY <2>1, <2>2
  <1>2. \A r \in Requests : StepsLeft(r) \in 0 .. 5
    BY DEF StepsLeft
  <1> QED
    BY <1>1, <1>2, Invariance, PTL DEF Spec, RequestsGoOn
=============================================================================
