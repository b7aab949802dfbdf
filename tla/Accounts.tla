------------------------------- MODULE Accounts -------------------------------
(***************************************************************************)
(* The server side of registration, login and the login token: the         *)
(* coroutines of api/, the login and register handlers of the database     *)
(* server and the Redis key of a user, which holds the token for a day.    *)
(*                                                                         *)
(* A call is one HTTP request with the coroutine that serves it.  Several  *)
(* run at a time, and they interleave between the steps of this module: an *)
(* RPC, a Redis command and a statement of the database each take a step.  *)
(* setToken reads the key and writes it in two commands; the register      *)
(* handler looks for the name and inserts it in two statements.            *)
(*                                                                         *)
(* user_name is taken for unique in user_info (the schema is not in the    *)
(* repository): the INSERT of a second row fails.  It may fail for other   *)
(* reasons too, and a SELECT may; the handlers take a statement that fails *)
(* for one without rows.  An RPC that fails never resumes its coroutine    *)
(* (GrpcClient drops the call): the call is then stuck, but what the       *)
(* database server has begun for it goes on.                               *)
(***************************************************************************)
EXTENDS Integers, FiniteSets

CONSTANTS Users, Pwds, Files,
          Calls,      \* the requests in progress at a time
          None,       \* nothing: no user, password, token
          Undef,      \* the token of an answer that has none
          MaxTokens   \* bound: the tokens ever made

VARIABLES user_info,  \* the password of a user, None without a row
          redis,      \* the token of a user, None without one
          made,       \* the number of tokens made so far
          call,       \* the requests in progress
          granted,    \* history: who was answered which token on which password
          expired,    \* history: the tokens whose day is over
          missed,     \* history: who was told that the store has not got a file
          crowded,    \* history: users who logged in twice at the same time
          doubtful    \* history: users who registered twice at the same time, or
                      \* a statement of whose registration failed

server == <<user_info, redis, made, granted, expired, missed, crowded, doubtful>>

Tokens == 1..MaxTokens
Apis == {"login", "reg", "list", "md5", "upload"}

ASSUME AccountsAssumption ==
    /\ None \notin Users \cup Pwds \cup Files /\ None \notin Apis
    /\ MaxTokens \in Nat /\ None \notin Tokens /\ Undef \notin Tokens /\ Undef # None

\* cred is the password or the token of the request, code and token its answer;
\* lost: the RPC has failed, the database server is still at it.
Free == [api |-> None, user |-> None, cred |-> None, file |-> None, pc |-> "free",
         code |-> 0, token |-> None, lost |-> FALSE]
New(api, u, cred, f) == [Free EXCEPT !.api = api, !.user = u, !.cred = cred, !.file = f, !.pc = "recv"]

\* A database with some accounts in it; nobody is logged in.
InitServer ==
    /\ user_info \in [Users -> Pwds \cup {None}] /\ redis = [u \in Users |-> None]
    /\ made = 0 /\ granted = {} /\ expired = {} /\ missed = {}
    /\ crowded = {} /\ doubtful = {}

\* What api is asked for the user by a call the server has not answered.
InProgress(api, u) == \E c \in Calls : /\ call[c].api = api /\ call[c].user = u
                                       /\ call[c].pc \notin {"free", "answered"}
\* The history of a new request.
Arrives(api, u) ==
    /\ crowded' = IF api = "login" /\ InProgress(api, u) THEN crowded \cup {u} ELSE crowded
    /\ doubtful' = IF api = "reg" /\ InProgress(api, u) THEN doubtful \cup {u} ELSE doubtful

Goes(c, pc) == call' = [call EXCEPT ![c].pc = pc]
Replies(c, code) == call' = [call EXCEPT ![c].pc = "reply", ![c].code = code]
Hangs(c) == call' = [call EXCEPT ![c].pc = "stuck", ![c].code = 0, ![c].lost = FALSE]
Answers(c, code, t) == call' = [call EXCEPT ![c].pc = "answered", ![c].code = code, ![c].token = t]

-----------------------------------------------------------------------------
(* The database server.                                                    *)

\* A SELECT that fails refuses the login.
CheckPassword(c) ==
    /\ call[c].api = "login" /\ call[c].pc = "recv"
    /\ \/ user_info[call[c].user] = call[c].cred /\ Replies(c, 0)
       \/ Replies(c, 1)
    /\ UNCHANGED server

\* Mutant: the name is not looked for.
CheckNameSkipped(c) ==
    /\ call[c].api = "reg" /\ call[c].pc = "recv"
    /\ Goes(c, "insert")
    /\ UNCHANGED server

\* A statement of the registration fails.
Doubt(c) == doubtful' = doubtful \cup {call[c].user}

\* A row with the user name or with the nick name; nick names are left out,
\* so that any row may have the one of the request.  A SELECT that fails finds
\* no row.
CheckName(c) ==
    /\ call[c].api = "reg" /\ call[c].pc = "recv"
    /\ \/ \E u \in Users : user_info[u] # None /\ Replies(c, 2) /\ UNCHANGED doubtful
       \/ user_info[call[c].user] = None /\ Goes(c, "insert") /\ UNCHANGED doubtful
       \/ Goes(c, "insert") /\ Doubt(c)
    /\ UNCHANGED <<user_info, redis, made, granted, expired, missed, crowded>>

\* The reply is 0 whatever the INSERT did.
InsertUser(c) ==
    /\ call[c].pc = "insert" /\ Replies(c, 0)
    /\ LET u == call[c].user IN
       \/ /\ user_info[u] = None /\ UNCHANGED doubtful
          /\ user_info' = [user_info EXCEPT ![u] = call[c].cred]
       \/ /\ user_info[u] # None /\ UNCHANGED <<user_info, doubtful>>
       \/ UNCHANGED user_info /\ Doubt(c)
    /\ UNCHANGED <<redis, made, granted, expired, missed, crowded>>

\* The RPC fails: on its way to the server, while the server works, or on its
\* way back.
RpcLost(c) ==
    /\ call[c].api \in {"login", "reg"} /\ ~call[c].lost
    /\ \/ call[c].pc \in {"recv", "reply"} /\ Hangs(c)
       \/ call[c].pc \in {"recv", "insert"} /\ call' = [call EXCEPT ![c].lost = TRUE]
    /\ UNCHANGED server

\* The server has done its work for an RPC that has failed.
ReplyLost(c) ==
    /\ call[c].pc = "reply" /\ call[c].lost
    /\ Hangs(c)
    /\ UNCHANGED server

-----------------------------------------------------------------------------
(* The coroutines.                                                         *)

Grant(c, t) == granted' = granted \cup {[user |-> call[c].user, token |-> t, pwd |-> call[c].cred]}

\* Mutant: a login always makes a new token.
ReadNothing(c) ==
    /\ call[c].api = "login" /\ call[c].pc = "reply" /\ ~call[c].lost /\ call[c].code = 0
    /\ Goes(c, "setex") /\ UNCHANGED granted
    /\ UNCHANGED <<user_info, redis, made, expired, missed, crowded, doubtful>>

\* redis.get(user_name): an error, the token it holds, or none yet.
ReadToken(c) ==
    /\ call[c].api = "login" /\ call[c].pc = "reply" /\ ~call[c].lost /\ call[c].code = 0
    /\ LET t == redis[call[c].user] IN
       \/ Answers(c, 0, Undef) /\ UNCHANGED granted
       \/ t # None /\ Answers(c, 0, t) /\ Grant(c, t)
       \/ t = None /\ Goes(c, "setex") /\ UNCHANGED granted
    /\ UNCHANGED <<user_info, redis, made, expired, missed, crowded, doubtful>>

\* redis.setex(user_name, a day, a random token), which may fail, before or
\* after the key is written.
WriteToken(c) ==
    /\ call[c].pc = "setex" /\ made < MaxTokens
    /\ LET t == made + 1 IN
       /\ made' = t
       /\ \/ redis' = [redis EXCEPT ![call[c].user] = t] /\ Answers(c, 0, t) /\ Grant(c, t)
          \/ redis' = [redis EXCEPT ![call[c].user] = t] /\ Answers(c, 0, Undef) /\ UNCHANGED granted
          \/ UNCHANGED redis /\ Answers(c, 0, Undef) /\ UNCHANGED granted
    /\ UNCHANGED <<user_info, expired, missed, crowded, doubtful>>

\* The bound: without a token left the write fails.
WriteFails(c) ==
    /\ call[c].pc = "setex" /\ made = MaxTokens
    /\ Answers(c, 0, Undef)
    /\ UNCHANGED server

\* A failed login and every registration answer the code of the RPC.
AnswerCode(c) ==
    /\ call[c].api \in {"login", "reg"} /\ call[c].pc = "reply" /\ ~call[c].lost
    /\ ~(call[c].api = "login" /\ call[c].code = 0)
    /\ Answers(c, call[c].code, None)
    /\ UNCHANGED server

\* Mutant: any token will do for a user who has one.
VerifyAny(c) ==
    /\ call[c].api \in {"list", "md5"} /\ call[c].pc = "recv"
    /\ \/ redis[call[c].user] # None /\ Goes(c, "rpc")
       \/ Answers(c, IF call[c].api = "md5" THEN 4 ELSE 1, None)
    /\ UNCHANGED server

\* VerifyToken; an error of Redis counts as a wrong token.
VerifyToken(c) ==
    /\ call[c].api \in {"list", "md5"} /\ call[c].pc = "recv"
    /\ \/ redis[call[c].user] = call[c].cred /\ Goes(c, "rpc")
       \/ Answers(c, IF call[c].api = "md5" THEN 4 ELSE 1, None)
    /\ UNCHANGED server

\* The metadata handlers behind a verified request, see FileStore: a list; a
\* file the store has (0), has not (1), or that the user lists already (5).
AskStore(c) ==
    /\ call[c].pc = "rpc"
    /\ \/ \E code \in IF call[c].api = "md5" THEN {0, 1, 5} ELSE {0} :
            /\ Answers(c, code, None)
            /\ missed' = IF code = 1 THEN missed \cup {<<call[c].user, call[c].file>>} ELSE missed
       \/ Hangs(c) /\ UNCHANGED missed
    /\ UNCHANGED <<user_info, redis, made, granted, expired, crowded, doubtful>>

\* The form of an upload has no token; the file is stored or not.
StoreFile(c) ==
    /\ call[c].api = "upload" /\ call[c].pc = "recv"
    /\ \/ \E code \in {0, 1} : Answers(c, code, None)
       \/ Hangs(c)
    /\ UNCHANGED server

Serve(c) ==
    \/ CheckPassword(c) \/ CheckName(c) \/ InsertUser(c) \/ RpcLost(c) \/ ReplyLost(c)
    \/ ReadToken(c) \/ WriteToken(c) \/ WriteFails(c) \/ AnswerCode(c)
    \/ VerifyToken(c) \/ AskStore(c) \/ StoreFile(c)

\* The day is over.
Expire(u) ==
    /\ redis[u] # None /\ redis' = [redis EXCEPT ![u] = None]
    /\ expired' = expired \cup {redis[u]}
    /\ UNCHANGED <<user_info, made, call, granted, missed, crowded, doubtful>>

-----------------------------------------------------------------------------
ServerTypeOK ==
    /\ user_info \in [Users -> Pwds \cup {None}] /\ redis \in [Users -> Tokens \cup {None}]
    /\ made \in 0..MaxTokens /\ expired \subseteq Tokens /\ crowded \subseteq Users /\ doubtful \subseteq Users
    /\ missed \subseteq Users \X Files
    /\ granted \subseteq [user : Users, token : Tokens, pwd : Pwds]
    /\ \A c \in Calls :
         /\ call[c].api \in Apis \cup {None} /\ call[c].user \in Users \cup {None}
         /\ call[c].pc \in {"free", "recv", "insert", "reply", "setex", "rpc", "answered", "stuck"}
         /\ call[c].code \in {0, 1, 2, 4, 5} /\ call[c].token \in Tokens \cup {None, Undef}
         /\ call[c].lost \in BOOLEAN

\* A request is let through only with a token that its user was answered to a
\* login with the password of the user's row.  (VerifyToken, setToken,
\* ApiUserLogin, LoginCall)
AcceptedWasIssued == \A c \in Calls : call[c].pc = "rpc" =>
    \E g \in granted : /\ g.user = call[c].user /\ g.token = call[c].cred
                       /\ g.pwd = user_info[g.user]

\* A second login, in another tab or on another machine, leaves the sessions
\* of the user as they are: every token answered and not expired is the stored
\* one, unless two logins of the user were in progress together.  (setToken)
SessionKept == \A g \in granted :
    g.token \notin expired /\ g.user \notin crowded => redis[g.user] = g.token

\* A registration answered with 0 has its password in the row, also when one
\* whose RPC had failed has gone before; unless two of that name are at work
\* together, where one may be such a remainder, or a statement has failed.  No
\* later one takes the row over.  (RegisterCall, GrpcClient)
RegisterStands == \A c \in Calls :
    call[c].api = "reg" /\ call[c].pc = "answered" /\ call[c].code = 0 /\ call[c].user \notin doubtful
        => user_info[call[c].user] = call[c].cred
=============================================================================
