-------------------------------- MODULE Api --------------------------------
(***************************************************************************)
(* One request from the wire to the backend and back: the HTTP routes of   *)
(* levels 1 to 4, the gRPC handlers and the command-line client of level 5,*)
(* the validation of internal/service in between, the deadline and the     *)
(* recovery from panics around them.                                       *)
(*                                                                         *)
(* Requests share no state, so one at a time is enough.  A name is only    *)
(* "good" or "bad" here (module Names) and a version is only there or not. *)
(***************************************************************************)
EXTENDS Integers, Sequences, Errors

CONSTANTS
    MaxReplicas    \* largest accepted replica count (1000 in the code)

ASSUME ApiAssumption == MaxReplicas \in Nat

VARIABLES
    level,     \* which of the five applications runs
    req,       \* the request as it was sent
    stage,        \* where its handling is
    set,       \* model.SetRequest: the count (Missing is nil) and the version
    called,    \* the call of the backend, if there was one
    raw,       \* the error where it began
    err,       \* that error as the handler got it
    answer     \* what the caller gets

apiVars == <<level, req, stage, set, called, raw, err, answer>>

Missing == 0 - 9
Numbers == {0 - 1, 0, 1, MaxReplicas, MaxReplicas + 1}

(* expectedVersion; "long" has more than 256 bytes.  The code does not tell*)
(* an empty text from none: over gRPC and on the command line they are one *)
(* value, in a JSON object both can be written.                            *)
Texts == {"none", "v", "long"}

NoSet == [n |-> Missing, version |-> "none"]
NoCall == [op |-> "none", n |-> Missing, version |-> "none"]
NoAnswer == [code |-> "none", text |-> "none"]

-----------------------------------------------------------------------------
(* What is sent over HTTP.  A body is a sequence of JSON values, an object *)
(* a sequence of fields, in which a name may be repeated; more is the size *)
(* limit, hit inside the first value or behind it.                         *)

Fields ==
    {[name |-> "replicas", n |-> n] : n \in Numbers \cup {Missing}} \cup  \* Missing: null
    {[name |-> "expectedVersion", text |-> t] : t \in Texts \cup {"empty"}} \cup  \* "none": null
    {[name |-> x] : x \in {"unknown", "wrongType"}}

Objects == UNION {[1..k -> Fields] : k \in 0..3}

NotObjects == {"null", "array", "broken"}

Value == [kind : {"object"}, fields : Objects] \cup [kind : NotObjects, fields : {<<>>}]

Body ==
    [first : Value, rest : {"nothing", "value", "broken"}, over : {"no", "first", "rest"}]

EmptyBody == [first |-> [kind |-> "broken", fields |-> <<>>], rest |-> "nothing", over |-> "no"]

PlainBody == [first |-> [kind |-> "object", fields |-> <<[name |-> "replicas", n |-> 1]>>],
              rest |-> "nothing", over |-> "no"]

(* Levels 2 to 4 decode a body with the same code: all bodies are tried at *)
(* one of them, and all routes at each.                                    *)
SetRequests == [method : {"PUT"}, path : {"replicas"}, json : {TRUE}, name : {"good"}, body : Body]

HTTPRequest ==
    [method : {"GET", "PUT", "POST"}, path : {"replicas", "deployments", "other"},
     json : BOOLEAN, name : {"good", "bad"}, body : {EmptyBody, PlainBody}]

(* And over gRPC: by any client, or by replicactl, from the words after    *)
(* its flags.  A count is a word that ParseInt takes, or not.              *)
RPCRequest ==
    [rpc : {"Get", "Set", "List"}, name : {"good", "bad"}, n : Numbers \cup {Missing},
     version : Texts]

Commands ==
    [cmd : {"get", "set", "list", "health", "other"}, words : 0..6, number : BOOLEAN,
     flag : {"no", "before", "after"}, n : Numbers]

-----------------------------------------------------------------------------
Answer(code, text) ==
    /\ answer' = [code |-> code, text |-> text]
    /\ stage' = "answered"

(* respond and convertError *)
AnswerError(e) ==
    IF level = 5 THEN Answer(GRPCCode(e), GRPCText(e))
                 ELSE Answer(HTTPStatus(e), PublicError(e))

Invalid == [NoError EXCEPT !.own = "InvalidArgument"]

(* Mutant of Operation: the PUT route is there at every level. *)
OperationEveryLevel(r) ==
    CASE r.path = "replicas" /\ r.method = "GET"                    -> "Get"
      [] r.path = "replicas" /\ r.method = "PUT"                    -> "Set"
      [] r.path = "deployments" /\ r.method = "GET" /\ level >= 3   -> "List"
      [] OTHER                                                      -> "none"

(* httpapi.New: the patterns of the level; the mux answers the rest with   *)
(* 405 (a pattern for the path exists) or 404.                             *)
Operation(r) ==
    CASE r.path = "replicas" /\ r.method = "GET"                    -> "Get"
      [] r.path = "replicas" /\ r.method = "PUT" /\ level >= 2      -> "Set"
      [] r.path = "deployments" /\ r.method = "GET" /\ level >= 3   -> "List"
      [] OTHER                                                      -> "none"

Route ==
    /\ stage = "route" /\ level < 5
    /\ CASE Operation(req) = "none" ->
              Answer(IF req.path = "replicas" \/ (req.path = "deployments" /\ level >= 3)
                     THEN "405" ELSE "404", "mux")
         [] Operation(req) = "Set" /\ ~req.json -> Answer("415", "own")
         [] Operation(req) = "Set" /\ req.json -> stage' = "decode" /\ UNCHANGED answer
         [] OTHER -> stage' = "service" /\ UNCHANGED answer
    /\ UNCHANGED <<level, req, set, called, raw, err>>

LastWith(s, Has(_)) == LET is == {i \in DOMAIN s : Has(s[i])}
                   IN  IF is = {} THEN 0 ELSE CHOOSE i \in is : \A j \in is : j <= i

(* Mutant of Decoded: the count is decoded into a value, not a pointer. *)
DecodedZero(fs) ==
    LET IsCount(f) == f.name = "replicas" /\ f.n # Missing
        i == LastWith(fs, IsCount)
    IN  [n |-> IF i = 0 THEN 0 ELSE fs[i].n, version |-> "none"]

(* Mutant of Decoded: a null also empties the version. *)
DecodedNullClears(fs) ==
    LET IsCount(f) == f.name = "replicas"
        IsVersion(f) == f.name = "expectedVersion"
        i == LastWith(fs, IsCount)
        j == LastWith(fs, IsVersion)
    IN  [n |-> IF i = 0 THEN Missing ELSE fs[i].n,
         version |-> IF j = 0 \/ fs[j].text = "empty" THEN "none" ELSE fs[j].text]

(* encoding/json: a later field overwrites an earlier one; null empties a  *)
(* pointer and leaves a string alone.                                      *)
Decoded(fs) ==
    LET IsCount(f) == f.name = "replicas"
        IsVersion(f) == f.name = "expectedVersion" /\ f.text # "none"
        i == LastWith(fs, IsCount)
        j == LastWith(fs, IsVersion)
    IN  [n |-> IF i = 0 THEN Missing ELSE fs[i].n,
         version |-> IF j = 0 \/ fs[j].text = "empty" THEN "none" ELSE fs[j].text]

(* badJSON *)
BadJSON(tooLarge) == Answer(IF tooLarge THEN "413" ELSE "400", "own")

Decode ==
    /\ stage = "decode"
    /\ LET b == req.body
           fs == b.first.fields
       IN  \/ b.over = "first" /\ BadJSON(TRUE) /\ UNCHANGED set
           \/ /\ b.over # "first"
              /\ \/ b.first.kind \in {"array", "broken"}
                 \/ \E i \in DOMAIN fs : fs[i].name \in {"unknown", "wrongType"}
              /\ BadJSON(FALSE) /\ UNCHANGED set
           \/ /\ b.over # "first"
              /\ b.first.kind \in {"object", "null"}
              /\ \A i \in DOMAIN fs : fs[i].name \in {"replicas", "expectedVersion"}
              /\ set' = Decoded(fs)
              /\ stage' = "trailing" /\ UNCHANGED answer
    /\ UNCHANGED <<level, req, called, raw, err>>

(* The second Decode has to find the end of the body. *)
Trailing ==
    /\ stage = "trailing"
    /\ IF req.body.over = "rest" \/ req.body.rest # "nothing"
       THEN BadJSON(req.body.over = "rest")
       ELSE stage' = "service" /\ UNCHANGED answer
    /\ UNCHANGED <<level, req, set, called, raw, err>>

-----------------------------------------------------------------------------
(* replicactl.  The flag package stops at the first word that is no flag:  *)
(* a flag behind the command is among the words that are counted.          *)

(* Mutant of CommandOK: a set may have more words than it needs. *)
CommandLax(c) ==
    CASE c.cmd = "get"    -> c.words = 2
      [] c.cmd = "set"    -> c.words >= 3 /\ c.number
      [] c.cmd = "list"   -> c.words <= 1
      [] c.cmd = "health" -> c.words = 0
      [] OTHER            -> FALSE

CommandOK(c) ==
    CASE c.cmd = "get"    -> c.words = 2
      [] c.cmd = "set"    -> c.words = 3 /\ c.number
      [] c.cmd = "list"   -> c.words <= 1
      [] c.cmd = "health" -> c.words = 0
      [] OTHER            -> FALSE

(* A command becomes a request; health goes to another service.  If the    *)
(* number of words is right with a flag among them, the flag stands where  *)
(* the count belongs, or a name, and no DNS label begins with a hyphen.    *)
Command ==
    /\ stage = "command"
    /\ IF ~CommandOK(req) \/ req.cmd = "health"
       THEN Answer(IF CommandOK(req) THEN "OK" ELSE "usage", "own") /\ UNCHANGED req
       ELSE /\ \E name \in IF req.flag = "after" /\ req.words <= 3
                           THEN {"bad"}
                           ELSE {"good", "bad"} :
                 req' = [cmd |-> req, name |-> name,
                         rpc |-> [get |-> "Get", set |-> "Set", list |-> "List"][req.cmd],
                         n |-> IF req.cmd = "set" THEN req.n ELSE Missing,
                         version |-> IF req.flag = "before" THEN "v" ELSE "none"]
            /\ stage' = "rpc" /\ UNCHANGED answer
    /\ UNCHANGED <<level, set, called, raw, err>>

(* Mutant of RPCSet: the getter is used, which turns a missing count to 0. *)
RPCSetGetter(r) ==
    [n |-> IF r.n = Missing THEN 0 ELSE r.n, version |-> r.version]

(* SetReplicas hands on the pointer of the message. *)
RPCSet(r) == [n |-> r.n, version |-> r.version]

(* The generated handlers: the message is decoded, or refused by the       *)
(* library (also when it is larger than MaxRecvMsgSize); then the          *)
(* interceptor and the handler.                                            *)
RPC ==
    /\ stage = "rpc"
    /\ \/ Answer("refused", "grpc") /\ UNCHANGED set
       \/ /\ set' = IF req.rpc = "Set" THEN RPCSet(req) ELSE NoSet
          /\ stage' = "service" /\ UNCHANGED answer
    /\ UNCHANGED <<level, req, called, raw, err>>

-----------------------------------------------------------------------------
Op == IF level = 5 THEN req.rpc ELSE Operation(req)

(* service.Set and ValidateReplicas *)
ValidSet(s) == s.n # Missing /\ s.n \in 0..MaxReplicas /\ s.version # "long"

(* internal/service: validation first, then the backend. *)
Serve ==
    /\ stage = "service"
    /\ IF req.name = "bad" \/ (Op = "Set" /\ ~ValidSet(set))
       THEN raw' = Invalid /\ err' = Invalid /\ stage' = "failed" /\ UNCHANGED called
       ELSE /\ called' = [op |-> Op, n |-> set.n, version |-> set.version]
            /\ stage' = "backend"
            /\ UNCHANGED <<raw, err>>
    /\ UNCHANGED <<level, req, set, answer>>

(* The backend returns.  Its errors have been through mapError, once or    *)
(* twice (GetTarget has applied it before Set does).                       *)
BackendReturns ==
    /\ stage = "backend"
    /\ \/ Answer(IF level = 5 THEN "OK" ELSE "200", "result") /\ UNCHANGED <<raw, err>>
       \/ \E e \in RawErrors, twice \in BOOLEAN :
             /\ raw' = e
             /\ err' = IF twice THEN MapError(MapError(e)) ELSE MapError(e)
             /\ stage' = "failed" /\ UNCHANGED answer
    /\ UNCHANGED <<level, req, set, called>>

(* Mutant of Expire: nothing bounds the work of a request. *)
ExpireNever == FALSE /\ UNCHANGED apiVars

(* The ten seconds of the handler are over: the context ends, and with it  *)
(* whatever the backend waits for.                                         *)
Expire ==
    /\ stage = "backend"
    /\ raw' = [NoError EXCEPT !.ctx = "DeadlineExceeded"]
    /\ err' = MapError(raw')
    /\ stage' = "failed"
    /\ UNCHANGED <<level, req, set, called, answer>>

(* A panic anywhere in the handler is recovered and logged. *)
Panic ==
    /\ stage \in {"decode", "trailing", "service", "backend", "failed"}
    /\ Answer(IF level = 5 THEN "Internal" ELSE "500", "internal server error")
    /\ UNCHANGED <<level, req, set, called, raw, err>>

Fails ==
    /\ stage = "failed"
    /\ AnswerError(err)
    /\ UNCHANGED <<level, req, set, called, raw, err>>

-----------------------------------------------------------------------------
ApiInit ==
    /\ level \in 1..5
    /\ \/ level < 5 /\ req \in HTTPRequest /\ stage = "route"
       \/ level = 4 /\ req \in SetRequests /\ stage = "route"
       \/ level = 5 /\ req \in RPCRequest /\ stage = "rpc"
       \/ level = 5 /\ req \in Commands /\ stage = "command"
    /\ set = NoSet /\ called = NoCall
    /\ raw = NoError /\ err = NoError /\ answer = NoAnswer

Handler == Route \/ Decode \/ Trailing \/ Command \/ RPC \/ Serve \/ Fails

ApiNext == Handler \/ BackendReturns \/ Expire \/ Panic

(* Code runs and timers fire; that the backend returns, or that anything   *)
(* panics, is not assumed.                                                 *)
ApiSpec == ApiInit /\ [][ApiNext]_apiVars /\ WF_apiVars(Handler) /\ WF_apiVars(Expire)

-----------------------------------------------------------------------------
(* What a caller who sent this asked for, read off the request alone: it   *)
(* is a request to set the count to n if it says so, once and in full.     *)
AsksFor(n) ==
    IF level < 5
    THEN /\ req.method = "PUT" /\ req.path = "replicas" /\ req.json /\ req.name = "good"
         /\ req.body.over = "no" /\ req.body.rest = "nothing"
         /\ LET fs == req.body.first.fields
            IN  /\ req.body.first.kind = "object"
                /\ \A i \in DOMAIN fs : fs[i].name \in {"replicas", "expectedVersion"}
                /\ \E i \in DOMAIN fs :
                      /\ fs[i].name = "replicas" /\ fs[i].n = n
                      /\ \A j \in DOMAIN fs : j > i => fs[j].name # "replicas"
    ELSE req.rpc = "Set" /\ req.name = "good" /\ req.n = n

(* docs/DESIGN.md: "A malformed request cannot become an accidental        *)
(* scale-to-zero."  The backend writes a count only if the request asked   *)
(* for exactly that one and it is in range; zero only if it says zero.     *)
(* At level 1 nothing writes.                                              *)
NoAccidentalWrite ==
    called.op = "Set" => level >= 2 /\ called.n \in 0..MaxReplicas /\ AsksFor(called.n)

(* The object gives no version: every one in it was emptied again by an    *)
(* empty text behind it, which a null does not do.                         *)
GivesNoVersion(fs) ==
    \A i \in DOMAIN fs :
       fs[i].name = "expectedVersion" /\ fs[i].text \notin {"none", "empty"} =>
          \E j \in DOMAIN fs :
             j > i /\ fs[j].name = "expectedVersion" /\ fs[j].text = "empty"

(* A precondition is not lost on the way: a write without expectedVersion  *)
(* is one whose caller gave none, or an empty one last, not one whose flag *)
(* stood in the wrong place or whose field was overwritten by a null.      *)
PreconditionKept ==
    called.op = "Set" /\ called.version = "none" =>
       IF level < 5
       THEN GivesNoVersion(req.body.first.fields)
       ELSE /\ req.version = "none"
            /\ "cmd" \in DOMAIN req => req.cmd.flag = "no"

(* Both transports say the same of the same failure, it keeps its kind on  *)
(* the way, however often it passes mapError, and only texts of the        *)
(* application are made public: nothing of the cause.                      *)
SameFailure ==
    stage = "failed" =>
       /\ raw.own # "none" => ErrorCode(err) = raw.own
       /\ raw.api # "none" => ErrorCode(err) = MappedCode(raw.api)
       /\ raw.ctx # "none" => ErrorCode(err) = "Unavailable" /\ GRPCCode(err) = raw.ctx
       /\ GRPCText(err) = PublicError(err)

(* Every request is answered, also when the API server never does. *)
Answered == <>(stage = "answered")
=============================================================================
