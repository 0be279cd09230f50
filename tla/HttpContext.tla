---------------------------- MODULE HttpContext ----------------------------
(***************************************************************************)
(* Requests through pkg/wkhttp.  Each handler of a chain runs in a frame   *)
(* of its own, with a context taken out of one pool for all requests,      *)
(* reset, and wrapped around the request; the middleware calls the rest of *)
(* the chain from inside of its frame, and a frame gives its context back  *)
(* when it returns.  The chain is CORSMiddleware, AuthMiddleware and a     *)
(* handler that answers administrators only.                               *)
(***************************************************************************)
EXTENDS Integers, Sequences

CONSTANTS Requests,      \* requests that are served at a time
          Contexts,      \* contexts that can be allocated
          Nothing,       \* what a context wraps after its reset
          Tokens,        \* tokens of requests
          NoToken,       \* a request without one
          Entries        \* the cache: what was stored for a token, split at "@"

VARIABLES pool,    \* the contexts given back
          wraps,   \* the request every allocated context wraps
          req      \* the requests

vars == <<pool, wraps, req>>

Idle == [at |-> "idle"]
Last(s) == s[Len(s)]
Front(s) == SubSeq(s, 1, Len(s) - 1)

Init == /\ pool = {}
        /\ wraps = [c \in {} |-> Nothing]
        /\ req = [r \in Requests |-> Idle]

\* A new request replaces an answered one; what was set in it is gone.  Preflights
\* carry no token.
Receive(r) ==
  /\ req[r].at \in {"idle", "answered"}
  /\ \E method \in {"OPTIONS", "POST"}, token \in Tokens \cup {NoToken} :
       /\ method = "OPTIONS" => token = NoToken
       /\ req' = [req EXCEPT ![r] = [at |-> "enter", method |-> method, token |-> token,
                                     stack |-> <<>>, keys |-> <<>>, status |-> 0]]
  /\ UNCHANGED <<pool, wraps>>

-----------------------------------------------------------------------------
(* WKHttpHandler *)

\* Contexts that were not allocated yet are all alike.
Fresh == LET new == Contexts \ DOMAIN wraps IN IF new = {} THEN {} ELSE {CHOOSE c \in new : TRUE}

\* Variant with a bug: the context is given back before the handler runs.
EnterShared(r) ==
  /\ req[r].at = "enter"
  /\ \E c \in pool \cup Fresh :
       /\ pool' = pool \cup {c}
       /\ wraps' = [d \in DOMAIN wraps \cup {c} |-> IF d = c THEN r ELSE wraps[d]]
       /\ req' = [req EXCEPT ![r].at = "run", ![r].stack = Append(@, c)]

\* Get takes a context from the pool or allocates one; it is reset and wrapped.
Enter(r) ==
  /\ req[r].at = "enter"
  /\ \E c \in pool \cup Fresh :
       /\ pool' = pool \ {c}
       /\ wraps' = [d \in DOMAIN wraps \cup {c} |-> IF d = c THEN r ELSE wraps[d]]
       /\ req' = [req EXCEPT ![r].at = "run", ![r].stack = Append(@, c)]

\* The deferred Put.  The frame that called Next goes on behind it, and returns.
Leave(r) ==
  /\ req[r].at = "leave"
  /\ pool' = pool \cup {Last(req[r].stack)}
  /\ req' = [req EXCEPT ![r].stack = Front(@),
                        ![r].at = IF Len(req[r].stack) = 1 THEN "answered" ELSE "leave"]
  /\ UNCHANGED wraps

-----------------------------------------------------------------------------
(* The handlers.  Each reads and writes the request that its context       *)
(* wraps, and goes on or back in its own.                                  *)

Wrapped(r) == wraps[Last(req[r].stack)]

Respond(r, status) ==
  req' = [q \in Requests |->
            LET answered == IF q = Wrapped(r) /\ "status" \in DOMAIN req[q]
                            THEN [req[q] EXCEPT !.status = status] ELSE req[q]
            IN  IF q = r THEN [answered EXCEPT !.at = "leave"] ELSE answered]

Frame(r, n) == req[r].at = "run" /\ Len(req[r].stack) = n

CORSMiddleware(r) ==
  /\ Frame(r, 1)
  /\ \/ req[Wrapped(r)].method = "OPTIONS" /\ Respond(r, 204)
     \/ /\ req[Wrapped(r)].method # "OPTIONS"
        /\ req' = [req EXCEPT ![r].at = "enter"]
  /\ UNCHANGED <<pool, wraps>>

\* The cache has a uid and a name, and a role for some; an entry with less is refused.
GetLoginUID(token) == IF token \in DOMAIN Entries THEN Entries[token] ELSE <<>>

AuthMiddleware(r) ==
  LET entry == GetLoginUID(req[Wrapped(r)].token)
  IN  /\ Frame(r, 2)
      /\ \/ Len(entry) < 2 /\ Respond(r, 401)
         \/ /\ Len(entry) >= 2
            /\ req' = [q \in Requests |->
                         LET set == IF q = Wrapped(r) THEN [req[q] EXCEPT !.keys = entry] ELSE req[q]
                         IN  IF q = r THEN [set EXCEPT !.at = "enter"] ELSE set]
      /\ UNCHANGED <<pool, wraps>>

\* CheckLoginRole and a handler that answers.
CheckLoginRole(keys) == Len(keys) > 2 /\ keys[3] \in {"admin", "superAdmin"}

Handler(r) ==
  /\ Frame(r, 3)
  /\ Respond(r, IF CheckLoginRole(req[Wrapped(r)].keys) THEN 200 ELSE 400)
  /\ UNCHANGED <<pool, wraps>>

Serve(r) == Enter(r) \/ Leave(r) \/ CORSMiddleware(r) \/ AuthMiddleware(r) \/ Handler(r)
Next == \E r \in Requests : Receive(r) \/ Serve(r)

Spec == Init /\ [][Next]_vars

-----------------------------------------------------------------------------
(* Properties. *)

InService(r) == req[r].at \in {"enter", "run", "leave"}
Held(r) == IF InService(r) THEN {req[r].stack[i] : i \in 1 .. Len(req[r].stack)} ELSE {}

TypeOK ==
  /\ pool \subseteq DOMAIN wraps /\ DOMAIN wraps \subseteq Contexts
  /\ \A c \in DOMAIN wraps : wraps[c] \in Requests
  /\ \A r \in Requests : req[r].at = "idle" \/ (Len(req[r].stack) <= 3 /\ Held(r) \subseteq Contexts)

\* What a request that stands alone is answered.
Expected(method, token) ==
  IF method = "OPTIONS" THEN 204
  ELSE IF Len(GetLoginUID(token)) < 2 THEN 401
  ELSE IF CheckLoginRole(GetLoginUID(token)) THEN 200 ELSE 400

\* Requests never meet in a context: one that is in use belongs to one frame, is not
\* in the pool and wraps the request of its frame; and every request gets the answer
\* that its own method and token call for.
RequestsApart ==
  /\ \A r \in Requests :
       /\ \A c \in Held(r) : c \notin pool /\ wraps[c] = r
       /\ InService(r) => \A i, j \in 1 .. Len(req[r].stack) :
                            req[r].stack[i] = req[r].stack[j] => i = j
       /\ \A q \in Requests \ {r} : Held(r) \cap Held(q) = {}
       /\ req[r].at = "answered" => req[r].status = Expected(req[r].method, req[r].token)
=============================================================================
