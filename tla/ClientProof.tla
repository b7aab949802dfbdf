----------------------------- MODULE ClientProof -----------------------------
(***************************************************************************)
(* Proofs about Client and Accounts, for any users, files, tabs, requests  *)
(* and bounds. The inductive invariant has a server half (CallInv,         *)
(* GrantInv, TokenInv, SessionInv, RegisterInv: what a call in progress    *)
(* may rely on at each of its steps, and whose a token is) and a browser   *)
(* half (CookieInv, TabInv, AskInv: the cookies and the documents hold     *)
(* what the server has answered, in pairs as long as every name is read    *)
(* back, and which request a document waits for). The browser's steps      *)
(* reach the server half only through the calls they begin and end         *)
(* (BrowserEffect), the server's reach the browser half only through the   *)
(* progress of one call (ServeEffect).                                     *)
(***************************************************************************)
EXTENDS Client, TLAPS

Creds == Pwds \cup Tokens \cup {None, Undef}
CallPcs == {"free", "recv", "insert", "reply", "setex", "rpc", "answered", "stuck"}
CallRec == [api : Apis \cup {None}, user : Users \cup {None}, cred : Creds,
            file : Files \cup {None}, pc : CallPcs, code : {0, 1, 2, 4, 5},
            token : Tokens \cup {None, Undef}, lost : BOOLEAN]
Upload == [st : {"none", "hash", "check", "send"}, file : Files \cup {None},
           mounted : BOOLEAN, refused : BOOLEAN,
           user : Users \cup {None}, token : Tokens \cup {None, Undef}]
Document == [installed : SUBSET Chunks, pushed : BOOLEAN, page : Pages \cup {None},
             user : Users \cup {None}, token : Tokens \cup {None, Undef},
             wait : Calls \cup {None}, fetch : BOOLEAN, up : Upload]

ServerTypes ==
    /\ user_info \in [Users -> Pwds \cup {None}]
    /\ redis \in [Users -> Tokens \cup {None}]
    /\ made \in 0..MaxTokens /\ expired \subseteq Tokens
    /\ crowded \subseteq Users /\ doubtful \subseteq Users
    /\ missed \subseteq Users \X Files
    /\ granted \subseteq [user : Users, token : Tokens, pwd : Pwds]

BrowserTypes ==
    /\ cookie \in Cookies
    /\ tab \in [Tabs -> Document]
    /\ asker \in [Calls -> Tabs \cup {None}]

Types == ServerTypes /\ call \in [Calls -> CallRec] /\ BrowserTypes

-----------------------------------------------------------------------------
(* The server's half of the invariant.                                     *)

Held(tk) == tk = Undef \/ \E g \in granted : g.token = tk
Issued(u, tk) == \E g \in granted : g.user = u /\ g.token = tk /\ g.pwd = user_info[g.user]
Busy(c) == call[c].pc \notin {"free", "answered"}

\* What a call may rely on, by its kind and its step.
CallOK(c) ==
    /\ call[c].api \in {"login", "reg"} => call[c].user \in Users /\ call[c].cred \in Pwds
    /\ call[c].api \in {"list", "md5"} => call[c].user \in Users /\ Held(call[c].cred)
    /\ call[c].pc = "insert" => call[c].api = "reg"
    /\ call[c].pc = "setex" => call[c].api = "login" /\ call[c].code = 0
    /\ call[c].pc = "rpc" => /\ call[c].api \in {"list", "md5"}
                             /\ Issued(call[c].user, call[c].cred)
    /\ call[c].api = "login" /\ call[c].pc \in {"reply", "setex", "answered"} /\ call[c].code = 0
          => user_info[call[c].user] = call[c].cred
    /\ call[c].api = "login" /\ call[c].pc = "answered" /\ call[c].code = 0
          => PairOf(call[c].user, call[c].token)
    /\ call[c].api = "md5" => call[c].file \in Files /\ call[c].user \in Users
    /\ call[c].api = "md5" /\ call[c].pc = "answered" /\ call[c].code = 1
          => <<call[c].user, call[c].file>> \in missed
    /\ call[c].api = "upload"
          => call[c].file \notin Big /\ <<call[c].user, call[c].file>> \in missed
CallInv == \A c \in Calls : CallOK(c)

\* A row is for ever: who was granted a token has the password it was granted on.
GrantInv == \A g \in granted : g.pwd = user_info[g.user]

\* A token is one user's, whatever page it is sent from.
TokenInv ==
    /\ \A g \in granted : g.token \in 1..made
    /\ \A u \in Users : redis[u] # None =>
         /\ redis[u] \in 1..made
         /\ \A v \in Users : redis[v] = redis[u] => v = u
         /\ \A g \in granted : g.token = redis[u] => g.user = u

\* A user's only login finds the key as it left it.
SessionInv ==
    /\ SessionKept
    /\ \A c \in Calls : call[c].pc = "setex" /\ call[c].user \notin crowded
                           => redis[call[c].user] = None
    /\ \A c, d \in Calls :
          /\ call[c].api = "login" /\ Busy(c) /\ call[d].api = "login" /\ Busy(d)
          /\ call[c].user = call[d].user /\ call[c].user \notin crowded
          => c = d

\* A name's only registration finds the row as it left it.
RegisterInv ==
    /\ RegisterStands
    /\ \A c \in Calls : call[c].api = "reg" /\ call[c].user \notin doubtful =>
          /\ call[c].pc = "insert" => user_info[call[c].user] = None
          /\ call[c].pc = "reply" /\ call[c].code = 0 => user_info[call[c].user] = call[c].cred
    /\ \A c, d \in Calls :
          /\ call[c].api = "reg" /\ Busy(c) /\ call[d].api = "reg" /\ Busy(d)
          /\ call[c].user = call[d].user /\ call[c].user \notin doubtful
          => c = d

ServerInv == CallInv /\ GrantInv /\ TokenInv /\ SessionInv /\ RegisterInv

-----------------------------------------------------------------------------
(* The browser's half.                                                     *)

\* What a page is shown with: a token that was answered, and to that name as
\* long as all names are read back (odd is FALSE).
Good(u, tk, odd) == u \in Users /\ Held(tk) /\ (~odd => PairOf(u, tk))

CookieOK(k) ==
    /\ k.token # None => Held(k.token)
    /\ ~k.odd => k.userName # Undef /\ (k.token # None => Good(k.userName, k.token, k.odd))
CookieInv == CookieOK(cookie)

DocOK(d, odd) ==
    /\ ~odd => d.page \notin {"loop", "blank"}
    /\ d.page # None => Chunks \subseteq d.installed
    /\ d.page = "files" => Good(d.user, d.token, odd)
    /\ d.up.st # "none" => /\ Good(d.up.user, d.up.token, odd) /\ d.up.file \in Files
                           /\ d.up.file \in Big => d.up.refused
TabInv == \A t \in Tabs : DocOK(tab[t], cookie.odd)

\* A form waits for its own call; at most one call of a document is the upload's.
WaitOK(t) == tab[t].wait # None => /\ tab[t].page # None /\ asker[tab[t].wait] = t
                                   /\ call[tab[t].wait].api \in {"login", "reg"}
UploadCall(c) == call[c].api \in {"md5", "upload"}
AskOK(c) == asker[c] # None =>
    /\ call[c].api # None
    /\ UploadCall(c) => tab[asker[c]].up.st \in {"check", "send"}
    /\ call[c].api = "md5" => /\ call[c].user = tab[asker[c]].up.user
                              /\ call[c].file = tab[asker[c]].up.file
OneUpload == \A c, d \in Calls :
    asker[c] # None /\ asker[c] = asker[d] /\ UploadCall(c) /\ UploadCall(d) => c = d
AskInv == (\A t \in Tabs : WaitOK(t)) /\ (\A c \in Calls : AskOK(c)) /\ OneUpload

BrowserInv == CookieInv /\ TabInv /\ AskInv

IInv == Types /\ ServerInv /\ BrowserInv

-----------------------------------------------------------------------------
USE AccountsAssumption, ClientAssumption

LEMMA InitIInv == Init => IInv
<1> SUFFICES ASSUME Init PROVE IInv
  OBVIOUS
<1> USE DEF Init, InitServer
<1>1. ServerTypes
  BY DEF ServerTypes
<1>2. call \in [Calls -> CallRec]
  BY DEF CallRec, Free, CallPcs, Creds
<1>3. BrowserTypes
  BY DEF BrowserTypes, Cookies, Document, Blank, Upload, NoUpload, Chunks
<1>4. \A c \in Calls : call[c].api = None /\ call[c].pc = "free" /\ asker[c] = None
  BY DEF Free
<1>5. \A t \in Tabs : tab[t].page = None /\ tab[t].wait = None /\ tab[t].up.st = "none"
  BY DEF Blank, NoUpload
<1>6. CallInv /\ GrantInv /\ TokenInv
  BY <1>4 DEF CallInv, CallOK, GrantInv, TokenInv, Apis
<1>7. SessionInv /\ RegisterInv
  BY <1>4 DEF SessionInv, SessionKept, RegisterInv, RegisterStands, Apis, Busy
<1>8. CookieInv /\ TabInv /\ AskInv
  BY <1>4, <1>5 DEF CookieInv, CookieOK, TabInv, DocOK, AskInv, WaitOK, AskOK, OneUpload, Pages
<1> QED
  BY <1>1, <1>2, <1>3, <1>6, <1>7, <1>8 DEF IInv, Types, ServerInv, BrowserInv

-----------------------------------------------------------------------------
(* Steps of the server.                                                    *)

\* The server moves one call on: it never forgets a grant, a row or an answer,
\* and it never changes what a call asks for.
ServeMoves(c) ==
    /\ call' = [call EXCEPT ![c] = call'[c]] /\ call'[c] \in CallRec
    /\ call'[c].api = call[c].api /\ call'[c].user = call[c].user
    /\ call'[c].cred = call[c].cred /\ call'[c].file = call[c].file
    /\ granted \subseteq granted' /\ missed \subseteq missed'
    /\ UNCHANGED <<expired, crowded>> /\ doubtful \subseteq doubtful'
    /\ \A u \in Users : user_info[u] # None => user_info'[u] = user_info[u]

LEMMA ServeEffect ==
    ASSUME Types, CallInv, NEW c \in Calls, Serve(c)
    PROVE  ServeMoves(c) /\ ServerTypes'
<1> USE DEF Types, ServerTypes, ServeMoves, Goes, Replies, Hangs, Answers, server
<1>0. call \in [Calls -> CallRec] /\ call[c] \in CallRec
  OBVIOUS
<1>1. CASE CheckPassword(c)
  BY <1>0, <1>1 DEF CheckPassword, CallRec, CallPcs
<1>2. CASE CheckName(c)
  <2>1. call[c].user \in Users
    BY <1>2 DEF CheckName, CallInv, CallOK
  <2> QED
    BY <1>0, <1>2, <2>1 DEF CheckName, Doubt, CallRec, CallPcs
<1>3. CASE InsertUser(c)
  <2>1. call[c].user \in Users /\ call[c].cred \in Pwds
    BY <1>3 DEF InsertUser, CallInv, CallOK
  <2> QED
    BY <1>0, <1>3, <2>1 DEF InsertUser, Doubt, CallRec, CallPcs
<1>4. CASE RpcLost(c)
  <2>1. CASE Hangs(c)
    BY <1>0, <1>4, <2>1 DEF RpcLost, CallRec, CallPcs
  <2>2. CASE call' = [call EXCEPT ![c].lost = TRUE]
    BY <1>0, <1>4, <2>2 DEF RpcLost, CallRec
  <2> HIDE DEF Hangs
  <2> QED
    BY <1>4, <2>1, <2>2 DEF RpcLost
<1>5. CASE ReadToken(c)
  <2>1. call[c].user \in Users /\ call[c].cred \in Pwds
    BY <1>5 DEF ReadToken, CallInv, CallOK
  <2> QED
    BY <1>0, <1>5, <2>1 DEF ReadToken, Grant, CallRec, CallPcs
<1>6. CASE WriteToken(c)
  <2>1. call[c].user \in Users /\ call[c].cred \in Pwds
    BY <1>6 DEF WriteToken, CallInv, CallOK
  <2>2. made + 1 \in Tokens /\ made + 1 \in 0..MaxTokens
    BY <1>6 DEF WriteToken, Tokens
  <2> QED
    BY <1>0, <1>6, <2>1, <2>2 DEF WriteToken, Grant, CallRec, CallPcs
<1>7. CASE WriteFails(c)
  BY <1>0, <1>7 DEF WriteFails, CallRec, CallPcs
<1>8. CASE AnswerCode(c)
  BY <1>0, <1>8 DEF AnswerCode, CallRec, CallPcs
<1>9. CASE VerifyToken(c)
  BY <1>0, <1>9 DEF VerifyToken, CallRec, CallPcs
<1>10. CASE AskStore(c)
  <2>1. call[c].api = "md5" => call[c].file \in Files /\ call[c].user \in Users
    BY DEF CallInv, CallOK
  <2>2. CASE \E code \in {0, 1, 5} :
                /\ code = 1 => call[c].api = "md5"
                /\ Answers(c, code, None)
                /\ missed' = IF code = 1 THEN missed \cup {<<call[c].user, call[c].file>>} ELSE missed
    <3> PICK code \in {0, 1, 5} :
                /\ code = 1 => call[c].api = "md5"
                /\ Answers(c, code, None)
                /\ missed' = IF code = 1 THEN missed \cup {<<call[c].user, call[c].file>>} ELSE missed
      BY <2>2
    <3>1. missed \subseteq missed' /\ missed' \subseteq Users \X Files
      <4>1. CASE code = 1
        <5>1. <<call[c].user, call[c].file>> \in Users \X Files
          BY <2>1, <4>1
        <5> QED
          BY <4>1, <5>1
      <4> QED
        BY <4>1
    <3> QED
      BY <1>0, <1>10, <3>1 DEF AskStore, CallRec, CallPcs
  <2>3. CASE Hangs(c) /\ UNCHANGED missed
    BY <1>0, <1>10, <2>3 DEF AskStore, CallRec, CallPcs
  <2>4. CASE \E code \in IF call[c].api = "md5" THEN {0, 1, 5} ELSE {0} :
                /\ Answers(c, code, None)
                /\ missed' = IF code = 1 THEN missed \cup {<<call[c].user, call[c].file>>} ELSE missed
    <3> PICK code \in IF call[c].api = "md5" THEN {0, 1, 5} ELSE {0} :
                /\ Answers(c, code, None)
                /\ missed' = IF code = 1 THEN missed \cup {<<call[c].user, call[c].file>>} ELSE missed
      BY <2>4
    <3>1. code \in {0, 1, 5} /\ (code = 1 => call[c].api = "md5")
      OBVIOUS
    <3> HIDE DEF Answers
    <3> QED
      BY <2>2, <3>1
  <2> HIDE DEF Answers, Hangs
  <2> QED
    BY <1>10, <2>3, <2>4 DEF AskStore
<1>11. CASE StoreFile(c)
  BY <1>0, <1>11 DEF StoreFile, CallRec, CallPcs
<1>12. CASE ReplyLost(c)
  BY <1>0, <1>12 DEF ReplyLost, CallRec, CallPcs
<1> QED
  BY <1>1, <1>2, <1>3, <1>4, <1>5, <1>6, <1>7, <1>8, <1>9, <1>10, <1>11, <1>12 DEF Serve

LEMMA ServeCall ==
    ASSUME Types, CallInv, GrantInv, TokenInv, NEW c \in Calls, Serve(c)
    PROVE  CallInv'
<1>0. ServeMoves(c) /\ CallOK(c) /\ call \in [Calls -> CallRec] /\ call[c] \in CallRec /\ ServerTypes
  BY ServeEffect DEF Types, CallInv
<1> SUFFICES ASSUME NEW d \in Calls PROVE CallOK(d)'
  BY DEF CallInv
<1> USE DEF ServeMoves, CallOK, Held, PairOf, Issued
<1>1. granted \subseteq granted' /\ missed \subseteq missed'
  BY <1>0
<1>2. \A g \in granted : user_info'[g.user] = user_info[g.user]
  BY <1>0 DEF ServerTypes, GrantInv
<1>3. CASE d # c
  <2>1. call'[d] = call[d] /\ CallOK(d)
    BY <1>0, <1>3 DEF CallInv
  <2>2. ASSUME call[d].api = "login", user_info[call[d].user] = call[d].cred
        PROVE  user_info'[call[d].user] = call[d].cred
    <3>1. call[d].user \in Users /\ call[d].cred # None
      BY <2>1, <2>2
    <3> QED
      BY <1>0, <2>2, <3>1
  <2>3. Issued(call[d].user, call[d].cred) => Issued(call[d].user, call[d].cred)'
    BY <1>1, <1>2, <2>1
  <2> HIDE DEF Issued, ServeMoves
  <2> QED
    BY <1>1, <2>1, <2>2, <2>3
<1>4. CASE d = c
  <2>1. CASE CheckPassword(c)
    BY <1>0, <1>1, <1>4, <2>1 DEF CheckPassword, Replies, server, CallRec
  <2>2. CASE CheckName(c)
    <3>1. UNCHANGED <<user_info, granted, missed>>
      BY <2>2 DEF CheckName
    <3> QED
      BY <1>0, <1>1, <1>4, <2>2, <3>1 DEF CheckName, Replies, Goes, CallRec
  <2>3. CASE InsertUser(c)
    BY <1>0, <1>1, <1>4, <2>3 DEF InsertUser, Replies, Goes, server, CallRec
  <2>4. CASE RpcLost(c)
    BY <1>0, <1>1, <1>4, <2>4 DEF RpcLost, Hangs, server, CallRec
  <2>5. CASE ReadToken(c)
    <3>1. /\ call[c].api = "login" /\ call[c].user \in Users /\ call[c].cred \in Pwds
          /\ user_info[call[c].user] = call[c].cred /\ user_info' = user_info
      BY <1>0, <2>5 DEF ReadToken
    <3>2. CASE Answers(c, 0, Undef)
      BY <1>0, <1>1, <1>4, <3>1, <3>2 DEF Answers, CallRec
    <3>3. CASE Answers(c, 0, redis[call[c].user]) /\ Grant(c, redis[call[c].user])
      <4>1. call'[c] = [call[c] EXCEPT !.pc = "answered", !.code = 0, !.token = redis[call[c].user]]
        BY <1>0, <3>3 DEF Answers
      <4>2. [user |-> call[c].user, token |-> redis[call[c].user], pwd |-> call[c].cred] \in granted'
        BY <3>3 DEF Grant
      <4>3. \E g \in granted' : g.user = call[c].user /\ g.token = redis[call[c].user]
        BY <4>2
      <4> QED
        BY <1>0, <1>1, <1>4, <3>1, <4>1, <4>3 DEF CallRec
    <3>4. CASE Goes(c, "setex")
      BY <1>0, <1>1, <1>4, <2>5, <3>1, <3>4 DEF ReadToken, Goes, CallRec
    <3> QED
      BY <2>5, <3>2, <3>3, <3>4 DEF ReadToken
  <2>6. CASE WriteToken(c)
    <3>1. /\ call[c].api = "login" /\ call[c].user \in Users /\ call[c].cred \in Pwds
          /\ user_info[call[c].user] = call[c].cred /\ user_info' = user_info
      BY <1>0, <2>6 DEF WriteToken
    <3>2. CASE Answers(c, 0, Undef)
      BY <1>0, <1>1, <1>4, <3>1, <3>2 DEF Answers, CallRec
    <3>3. CASE Answers(c, 0, made + 1) /\ Grant(c, made + 1)
      <4>1. call'[c] = [call[c] EXCEPT !.pc = "answered", !.code = 0, !.token = made + 1]
        BY <1>0, <3>3 DEF Answers
      <4>2. [user |-> call[c].user, token |-> made + 1, pwd |-> call[c].cred] \in granted'
        BY <3>3 DEF Grant
      <4>3. \E g \in granted' : g.user = call[c].user /\ g.token = made + 1
        BY <4>2
      <4> QED
        BY <1>0, <1>1, <1>4, <3>1, <4>1, <4>3 DEF CallRec
    <3> QED
      BY <2>6, <3>2, <3>3 DEF WriteToken
  <2>7. CASE WriteFails(c)
    BY <1>0, <1>1, <1>4, <2>7 DEF WriteFails, Answers, server, CallRec
  <2>8. CASE AnswerCode(c)
    BY <1>0, <1>1, <1>4, <2>8 DEF AnswerCode, Answers, server, CallRec
  <2>9. CASE VerifyToken(c)
    <3>1. /\ call[c].api \in {"list", "md5"} /\ call[c].api # "login" /\ call[c].api # "upload"
          /\ UNCHANGED server /\ call[c].user \in Users /\ Held(call[c].cred)
      BY <1>0, <2>9 DEF VerifyToken
    <3>2. CASE redis[call[c].user] = call[c].cred /\ Goes(c, "rpc")
      <4>0. redis[call[c].user] # Undef
        BY <1>0, <3>1 DEF ServerTypes
      <4>1. call[c].cred # Undef /\ redis[call[c].user] = call[c].cred
        BY <3>2, <4>0
      <4>2. Issued(call[c].user, call[c].cred)
        <5>1. PICK g \in granted : g.token = call[c].cred
          BY <3>1, <4>1
        <5>2. redis[call[c].user] # None
          BY <1>0, <4>1, <5>1 DEF ServerTypes
        <5>3. g.user = call[c].user
          BY <3>1, <4>1, <5>1, <5>2 DEF TokenInv
        <5> QED
          BY <5>1, <5>3 DEF GrantInv
      <4>3. call'[c] = [call[c] EXCEPT !.pc = "rpc"]
        BY <1>0, <3>2 DEF Goes
      <4> QED
        BY <1>0, <1>1, <1>4, <3>1, <4>2, <4>3 DEF CallRec, server
    <3>3. CASE Answers(c, IF call[c].api = "md5" THEN 4 ELSE 1, None)
      BY <1>0, <1>1, <1>4, <3>1, <3>3 DEF Answers, CallRec, server
    <3> QED
      BY <2>9, <3>2, <3>3 DEF VerifyToken
  <2>10. CASE AskStore(c)
    <3>1. /\ call[c].api \in {"list", "md5"} /\ call[c].api # "login" /\ call[c].api # "upload"
          /\ UNCHANGED <<user_info, granted>>
      BY <1>0, <2>10 DEF AskStore
    <3>2. CASE Hangs(c)
      BY <1>0, <1>1, <1>4, <3>1, <3>2 DEF Hangs, CallRec
    <3>3. ASSUME NEW code \in {0, 1, 5}, Answers(c, code, None),
                 code = 1 => <<call[c].user, call[c].file>> \in missed'
          PROVE  CallOK(d)'
      BY <1>0, <1>1, <1>4, <3>1, <3>3 DEF Answers, CallRec
    <3>4. ASSUME NEW code \in IF call[c].api = "md5" THEN {0, 1, 5} ELSE {0}, Answers(c, code, None),
                 missed' = IF code = 1 THEN missed \cup {<<call[c].user, call[c].file>>} ELSE missed
          PROVE  CallOK(d)'
      <4>1. code \in {0, 1, 5} /\ (code = 1 => <<call[c].user, call[c].file>> \in missed')
        BY <3>4
      <4> HIDE DEF CallOK
      <4> QED
        BY <3>3, <3>4, <4>1
    <3> HIDE DEF CallOK
    <3> QED
      BY <2>10, <3>2, <3>4 DEF AskStore
  <2>11. CASE StoreFile(c)
    BY <1>0, <1>1, <1>4, <2>11 DEF StoreFile, Hangs, Answers, server, CallRec
  <2>12. CASE ReplyLost(c)
    BY <1>0, <1>1, <1>4, <2>12 DEF ReplyLost, Hangs, server, CallRec
  <2> QED
    BY <2>1, <2>2, <2>3, <2>4, <2>5, <2>6, <2>7, <2>8, <2>9, <2>10, <2>11, <2>12 DEF Serve
<1> QED
  BY <1>3, <1>4

LEMMA ServeGrant ==
    ASSUME Types, CallInv, GrantInv, NEW c \in Calls, Serve(c)
    PROVE  GrantInv'
<1>0. ServeMoves(c) /\ CallOK(c) /\ ServerTypes
  BY ServeEffect DEF Types, CallInv
<1>1. \A g \in granted : user_info'[g.user] = user_info[g.user]
  BY <1>0 DEF ServeMoves, ServerTypes, GrantInv
<1>2. CASE granted' = granted
  BY <1>1, <1>2 DEF GrantInv
<1>3. CASE \E t : (ReadToken(c) \/ WriteToken(c)) /\ Grant(c, t)
  <2>1. user_info[call[c].user] = call[c].cred /\ user_info' = user_info
    BY <1>0, <1>3 DEF ReadToken, WriteToken, CallOK
  <2> QED
    BY <1>3, <2>1 DEF GrantInv, Grant
<1> QED
  BY <1>2, <1>3 DEF Serve, CheckPassword, CheckName, InsertUser, RpcLost, ReplyLost, ReadToken,
     WriteToken,
     WriteFails, AnswerCode, VerifyToken, AskStore, StoreFile, server

\* A new token is nobody's yet; an old one is granted to the user of its key.
LEMMA ServeToken ==
    ASSUME Types, CallInv, TokenInv, NEW c \in Calls, Serve(c)
    PROVE  TokenInv'
<1>0. ServerTypes /\ CallOK(c)
  BY DEF Types, CallInv
<1>1. CASE ReadToken(c)
  <2>1. /\ call[c].user \in Users /\ UNCHANGED <<redis, made>>
        /\ \/ granted' = granted
           \/ /\ redis[call[c].user] # None
              /\ granted' = granted \cup {[user |-> call[c].user, token |-> redis[call[c].user],
                                           pwd |-> call[c].cred]}
    BY <1>0, <1>1 DEF ReadToken, Grant, CallOK
  <2> QED
    BY <2>1 DEF TokenInv
<1>2. CASE WriteToken(c)
  <2> DEFINE g == [user |-> call[c].user, token |-> made + 1, pwd |-> call[c].cred]
  <2>1. call[c].user \in Users /\ made' = made + 1 /\ made \in Nat
    BY <1>0, <1>2 DEF WriteToken, CallOK, ServerTypes
  <2>2. \/ granted' = granted /\ redis' = redis
        \/ /\ redis' = [redis EXCEPT ![call[c].user] = made + 1]
           /\ granted' = granted \/ granted' = granted \cup {g}
    BY <1>2 DEF WriteToken, Grant
  <2>3. \A k \in 1..made : k # made + 1 /\ k \in 1..made'
    BY <2>1
  <2>4. made + 1 \in 1..made' /\ made + 1 # None
    BY <1>0, <1>2, <2>1 DEF WriteToken, ServerTypes, Tokens
  <2>5. CASE granted' = granted /\ redis' = redis
    BY <2>3, <2>5 DEF TokenInv
  <2>6. CASE /\ redis' = [redis EXCEPT ![call[c].user] = made + 1]
             /\ granted' = granted \/ granted' = granted \cup {g}
    <3>1. /\ redis'[call[c].user] = made + 1
          /\ \A u \in Users : u # call[c].user => redis'[u] = redis[u]
      BY <1>0, <2>1, <2>6 DEF ServerTypes
    <3>2. \A h \in granted' : h.token \in 1..made' /\ (h \in granted \/ h = g)
      BY <2>3, <2>4, <2>6 DEF TokenInv
    <3>3. g.user = call[c].user /\ g.token = made + 1
      OBVIOUS
    <3> HIDE DEF g
    <3>4. ASSUME NEW u \in Users, redis'[u] # None
          PROVE  /\ redis'[u] \in 1..made'
                 /\ \A v \in Users : redis'[v] = redis'[u] => v = u
                 /\ \A h \in granted' : h.token = redis'[u] => h.user = u
      <4>1. \A v \in Users : v # call[c].user /\ redis[v] # None => redis[v] \in 1..made
        BY DEF TokenInv
      <4>2. CASE u = call[c].user
        <5>1. \A h \in granted : h.token # made + 1
          BY <2>3 DEF TokenInv
        <5> QED
          BY <2>3, <2>4, <3>1, <3>2, <3>3, <4>1, <4>2, <5>1
      <4>3. CASE u # call[c].user
        BY <2>3, <3>1, <3>2, <3>3, <3>4, <4>1, <4>3 DEF TokenInv
      <4> QED
        BY <4>2, <4>3
    <3> QED
      BY <3>2, <3>4 DEF TokenInv
  <2> QED
    BY <2>2, <2>5, <2>6
<1>3. CASE ~ReadToken(c) /\ ~WriteToken(c)
  <2>1. UNCHANGED <<redis, made, granted>>
    BY <1>3 DEF Serve, CheckPassword, CheckName, InsertUser, RpcLost, ReplyLost, WriteFails,
       AnswerCode, VerifyToken, AskStore, StoreFile, server
  <2> QED
    BY <2>1 DEF TokenInv
<1> QED
  BY <1>1, <1>2, <1>3

\* Only the user's own login writes the key, and it finds none there.
LEMMA ServeSession ==
    ASSUME Types, CallInv, SessionInv, NEW c \in Calls, Serve(c)
    PROVE  SessionInv'
<1>0. ServeMoves(c) /\ CallOK(c) /\ ServerTypes /\ call \in [Calls -> CallRec]
  BY ServeEffect DEF Types, CallInv
<1> USE DEF ServeMoves
<1>1. \A d \in Calls : /\ call'[d].api = call[d].api /\ call'[d].user = call[d].user
                       /\ d # c => call'[d] = call[d]
  BY <1>0
<1>2. UNCHANGED <<expired, crowded>>
  BY <1>0
<1>3. call'[c].api = "login" /\ Busy(c)' => Busy(c)
  BY <1>0 DEF Busy, Serve, CheckPassword, CheckName, InsertUser, RpcLost, ReplyLost, ReadToken,
     WriteToken,
     WriteFails, AnswerCode, VerifyToken, AskStore, StoreFile, Goes, Replies, Hangs, Answers
<1>4. (\A a, b \in Calls :
          /\ call[a].api = "login" /\ Busy(a) /\ call[b].api = "login" /\ Busy(b)
          /\ call[a].user = call[b].user /\ call[a].user \notin crowded
          => a = b)'
  BY <1>1, <1>2, <1>3 DEF SessionInv, Busy
<1>5. CASE ReadToken(c)
  <2>1. UNCHANGED redis /\ granted' \subseteq granted \cup
            {[user |-> call[c].user, token |-> redis[call[c].user], pwd |-> call[c].cred]}
    BY <1>5 DEF ReadToken, Grant
  <2>2. SessionKept'
    BY <1>2, <2>1 DEF SessionInv, SessionKept
  <2>3. call'[c].pc = "setex" => redis[call[c].user] = None
    BY <1>0, <1>5 DEF ReadToken, Answers, Goes, CallRec
  <2> QED
    BY <1>1, <1>2, <1>4, <2>1, <2>2, <2>3 DEF SessionInv
<1>6. CASE WriteToken(c)
  <2>1. /\ call[c].api = "login" /\ call[c].pc = "setex" /\ call[c].user \in Users
        /\ call'[c].pc = "answered"
    BY <1>0, <1>6 DEF WriteToken, CallOK, Answers, CallRec
  <2>2. /\ redis' \in {redis, [redis EXCEPT ![call[c].user] = made + 1]}
        /\ granted' \subseteq granted \cup
            {[user |-> call[c].user, token |-> made + 1, pwd |-> call[c].cred]}
        /\ granted' = granted \/ redis' = [redis EXCEPT ![call[c].user] = made + 1]
    BY <1>6 DEF WriteToken, Grant
  <2>3. SessionKept'
    <3>1. call[c].user \notin crowded => redis[call[c].user] = None
      BY <2>1 DEF SessionInv
    <3>2. \A g \in granted : g.user = call[c].user /\ g.user \notin crowded => g.token \in expired
      BY <1>0, <3>1 DEF SessionInv, SessionKept, ServerTypes
    <3>3. \A u \in Users : u # call[c].user => redis'[u] = redis[u]
      BY <1>0, <2>2 DEF ServerTypes
    <3>4. \A g \in granted : g.token \notin expired /\ g.user \notin crowded => redis'[g.user] = g.token
      BY <1>0, <3>2, <3>3 DEF SessionInv, SessionKept, ServerTypes
    <3>5. redis' = [redis EXCEPT ![call[c].user] = made + 1] => redis'[call[c].user] = made + 1
      BY <1>0, <2>1 DEF ServerTypes
    <3> QED
      BY <1>2, <2>2, <3>4, <3>5 DEF SessionKept
  <2>4. \A d \in Calls : d # c /\ call[d].pc = "setex" /\ call[d].user \notin crowded
                            => call[d].user \in Users /\ call[d].user # call[c].user
    BY <1>0, <2>1 DEF SessionInv, Busy, CallInv, CallOK
  <2>5. \A u \in Users : u # call[c].user => redis'[u] = redis[u]
    BY <1>0, <2>2 DEF ServerTypes
  <2>6. \A d \in Calls : call'[d].pc = "setex" /\ call'[d].user \notin crowded => redis'[call'[d].user] = None
    BY <1>1, <2>1, <2>4, <2>5 DEF SessionInv
  <2> QED
    BY <1>2, <1>4, <2>3, <2>6 DEF SessionInv
<1>7. CASE ~ReadToken(c) /\ ~WriteToken(c)
  <2>1. UNCHANGED <<redis, granted>>
    BY <1>7 DEF Serve, CheckPassword, CheckName, InsertUser, RpcLost, ReplyLost, WriteFails,
       AnswerCode, VerifyToken, AskStore, StoreFile, server
  <2>2. ASSUME NEW pc, NEW code, NEW tk,
               pc # "setex" /\ (Goes(c, pc) \/ Hangs(c) \/ Replies(c, code) \/ Answers(c, code, tk))
        PROVE  call'[c].pc # "setex"
    BY <1>0, <2>2 DEF Goes, Hangs, Replies, Answers, CallRec
  <2>3. call'[c].pc # "setex"
    <3>1. CASE CheckPassword(c)
      BY <2>2, <3>1 DEF CheckPassword
    <3>2. CASE CheckName(c)
      BY <2>2, <3>2 DEF CheckName
    <3>3. CASE InsertUser(c)
      BY <2>2, <3>3 DEF InsertUser
    <3>4. CASE RpcLost(c)
      BY <1>0, <2>2, <3>4 DEF RpcLost, CallRec
    <3>5. CASE WriteFails(c)
      BY <2>2, <3>5 DEF WriteFails
    <3>6. CASE AnswerCode(c)
      BY <2>2, <3>6 DEF AnswerCode
    <3>7. CASE VerifyToken(c)
      BY <2>2, <3>7 DEF VerifyToken
    <3>8. CASE AskStore(c)
      BY <2>2, <3>8 DEF AskStore
    <3>9. CASE StoreFile(c)
      BY <2>2, <3>9 DEF StoreFile
    <3>10. CASE ReplyLost(c)
      BY <2>2, <3>10 DEF ReplyLost
    <3> QED
      BY <1>7, <3>1, <3>2, <3>3, <3>4, <3>5, <3>6, <3>7, <3>8, <3>9, <3>10 DEF Serve
  <2> QED
    BY <1>1, <1>2, <1>4, <2>1, <2>3 DEF SessionInv, SessionKept
<1> QED
  BY <1>5, <1>6, <1>7

\* Only the name's own registration writes the row, and it finds none there.
LEMMA ServeRegister ==
    ASSUME Types, CallInv, RegisterInv, NEW c \in Calls, Serve(c)
    PROVE  RegisterInv'
<1>0. /\ ServeMoves(c) /\ CallOK(c) /\ ServerTypes
      /\ call \in [Calls -> CallRec] /\ call[c] \in CallRec
  BY ServeEffect DEF Types, CallInv
<1> USE DEF ServeMoves
<1>1. \A d \in Calls : /\ call'[d].api = call[d].api /\ call'[d].user = call[d].user
                       /\ call'[d].cred = call[d].cred
                       /\ d # c => call'[d] = call[d]
  BY <1>0
<1>2. doubtful \subseteq doubtful'
  BY <1>0
<1>3. call'[c].api = "reg" /\ Busy(c)' => Busy(c)
  BY <1>0 DEF Busy, Serve, CheckPassword, CheckName, InsertUser, RpcLost, ReplyLost, ReadToken,
     WriteToken,
     WriteFails, AnswerCode, VerifyToken, AskStore, StoreFile, Goes, Replies, Hangs, Answers
<1>4. (\A a, b \in Calls :
          /\ call[a].api = "reg" /\ Busy(a) /\ call[b].api = "reg" /\ Busy(b)
          /\ call[a].user = call[b].user /\ call[a].user \notin doubtful
          => a = b)'
  BY <1>1, <1>2, <1>3 DEF RegisterInv, Busy
<1>5. ASSUME NEW d \in Calls, call[d].api = "reg"
      PROVE  /\ call[d].user \in Users /\ call[d].cred \in Pwds
             /\ user_info[call[d].user] = call[d].cred => user_info'[call[d].user] = call[d].cred
  <2>1. call[d].user \in Users /\ call[d].cred \in Pwds
    BY <1>5 DEF CallInv, CallOK
  <2> QED
    BY <1>0, <2>1
<1>6. ASSUME call[c].api = "reg", call[c].user \notin doubtful'
      PROVE  /\ call'[c].pc = "insert" => user_info'[call[c].user] = None
             /\ call'[c].pc \in {"reply", "answered"} /\ call'[c].code = 0
                   => user_info'[call[c].user] = call[c].cred
  <2>1. CASE CheckName(c)
    BY <1>0, <1>6, <2>1 DEF CheckName, Doubt, Replies, Goes, CallRec
  <2>2. CASE InsertUser(c)
    BY <1>0, <1>2, <1>5, <1>6, <2>2 DEF InsertUser, Doubt, Replies, RegisterInv, CallRec,
       ServerTypes
  <2>3. CASE RpcLost(c)
    BY <1>0, <1>2, <1>6, <2>3 DEF RpcLost, Goes, Hangs, server, CallRec, RegisterInv
  <2>4. CASE AnswerCode(c)
    BY <1>0, <1>2, <1>6, <2>4 DEF AnswerCode, Answers, server, CallRec, RegisterInv
  <2>5. CASE ReplyLost(c)
    BY <1>0, <2>5 DEF ReplyLost, Hangs, server, CallRec
  <2> QED
    BY <1>0, <1>6, <2>1, <2>2, <2>3, <2>4, <2>5 DEF Serve, CheckPassword, ReadToken, WriteToken,
       WriteFails, VerifyToken, AskStore, StoreFile, CallOK
<1>7. ASSUME NEW d \in Calls, d # c, call[d].api = "reg", call[d].user \notin doubtful
      PROVE  call[d].pc = "insert" => user_info'[call[d].user] = user_info[call[d].user]
  <2>1. call[d].pc = "insert" /\ InsertUser(c) => call[c].user # call[d].user
    BY <1>0, <1>7 DEF InsertUser, RegisterInv, Busy, CallOK
  <2>2. ~InsertUser(c) => user_info' = user_info
    BY <1>0 DEF Serve, CheckPassword, CheckName, RpcLost, ReplyLost, ReadToken, WriteToken,
       WriteFails,
       AnswerCode, VerifyToken, AskStore, StoreFile, server
  <2>3. call[c].user # call[d].user /\ InsertUser(c) => user_info'[call[d].user] = user_info[call[d].user]
    BY <1>0, <1>5, <1>7 DEF InsertUser, ServerTypes
  <2> QED
    BY <2>1, <2>2, <2>3
<1> QED
  BY <1>0, <1>1, <1>2, <1>4, <1>5, <1>6, <1>7 DEF RegisterInv, RegisterStands

\* A key is taken away: nothing a call relies on but its own login's empty key.
LEMMA ExpireServer ==
    ASSUME Types, ServerInv, NEW u \in Users, Expire(u)
    PROVE  ServerTypes' /\ ServerInv'
<1> USE DEF Expire, Types, ServerTypes
<1>1. ServerTypes'
  OBVIOUS
<1>2. UNCHANGED <<user_info, call, granted, missed, crowded, doubtful>>
  OBVIOUS
<1>3. CallInv' /\ GrantInv' /\ RegisterInv'
  BY <1>2 DEF ServerInv, CallInv, CallOK, Good, Held, PairOf, Issued, GrantInv, RegisterInv,
     RegisterStands, Busy
<1>4. /\ expired' = expired \cup {redis[u]} /\ redis'[u] = None
      /\ \A v \in Users : v # u => redis'[v] = redis[v]
  OBVIOUS
<1>5. SessionKept'
  BY <1>2, <1>4 DEF ServerInv, SessionInv, SessionKept
<1>6. \A c \in Calls : call[c].pc = "setex" => call[c].user \in Users
  BY DEF ServerInv, CallInv, CallOK
<1>7. SessionInv'
  BY <1>2, <1>4, <1>5, <1>6 DEF ServerInv, SessionInv, Busy
<1>8. TokenInv'
  BY <1>4 DEF ServerInv, TokenInv
<1> QED
  BY <1>1, <1>3, <1>7, <1>8 DEF ServerInv

-----------------------------------------------------------------------------
(* Steps of the browser, as the server sees them.                          *)

\* What a document asks for: a password of a form, a pair it was answered, or a
\* small file the store has not got.
Legit(rq) ==
    /\ rq \in CallRec /\ rq.pc = "recv" /\ rq.code = 0 /\ rq.api \in Apis /\ rq.user \in Users
    /\ rq.api \in {"login", "reg"} => rq.cred \in Pwds
    /\ rq.api \in {"list", "md5"} => Held(rq.cred)
    /\ rq.api = "md5" => rq.file \in Files
    /\ rq.api = "upload" => rq.file \notin Big /\ <<rq.user, rq.file>> \in missed

BrowserMoves ==
    /\ UNCHANGED <<user_info, redis, made, granted, expired, missed>>
    /\ \/ call' = call /\ UNCHANGED <<crowded, doubtful>>
       \/ \E c \in Calls : call' = [call EXCEPT ![c] = Free] /\ UNCHANGED <<crowded, doubtful>>
       \/ \E c \in Calls, rq \in CallRec : /\ call' = [call EXCEPT ![c] = rq] /\ Legit(rq)
                                           /\ Arrives(rq.api, rq.user)

LEMMA BrowserServer ==
    ASSUME Types, ServerInv, BrowserMoves
    PROVE  ServerTypes' /\ call' \in [Calls -> CallRec] /\ ServerInv'
<1>0. UNCHANGED <<user_info, redis, made, granted, expired, missed>>
  BY DEF BrowserMoves
<1>1. CASE call' = call /\ UNCHANGED <<crowded, doubtful>>
  BY <1>0, <1>1 DEF Types, ServerTypes, ServerInv, TokenInv, CallInv, CallOK, Good, Held, PairOf,
     Issued, GrantInv,
     SessionInv, SessionKept, RegisterInv, RegisterStands, Busy
<1>2. ASSUME NEW c \in Calls, call' = [call EXCEPT ![c] = Free], UNCHANGED <<crowded, doubtful>>
      PROVE  ServerTypes' /\ call' \in [Calls -> CallRec] /\ ServerInv'
  <2>1. Free \in CallRec /\ Free.pc = "free" /\ Free.api = None
    BY DEF Free, CallRec, Creds, CallPcs
  <2>2. call' \in [Calls -> CallRec] /\ call'[c] = Free /\ \A d \in Calls : d # c => call'[d] = call[d]
    BY <1>2, <2>1 DEF Types
  <2>3. ServerTypes'
    BY <1>0, <1>2 DEF Types, ServerTypes
  <2>4. CallInv' /\ GrantInv' /\ TokenInv'
    BY <1>0, <2>1, <2>2 DEF ServerInv, TokenInv, CallInv, CallOK, Good, Held, PairOf, Issued,
       GrantInv, Apis
  <2>5. SessionInv' /\ RegisterInv'
    BY <1>0, <1>2, <2>1, <2>2 DEF ServerInv, SessionInv, SessionKept, RegisterInv, RegisterStands,
       Busy, Apis
  <2> QED
    BY <2>2, <2>3, <2>4, <2>5 DEF ServerInv
<1>3. ASSUME NEW c \in Calls, NEW rq \in CallRec, call' = [call EXCEPT ![c] = rq], Legit(rq),
             Arrives(rq.api, rq.user)
      PROVE  ServerTypes' /\ call' \in [Calls -> CallRec] /\ ServerInv'
  <2>1. call' \in [Calls -> CallRec] /\ call'[c] = rq /\ \A d \in Calls : d # c => call'[d] = call[d]
    BY <1>3 DEF Types
  <2>2. crowded \subseteq crowded' /\ doubtful \subseteq doubtful'
    BY <1>3 DEF Arrives
  <2>3. ServerTypes'
    BY <1>0, <1>3 DEF Types, ServerTypes, Arrives, Legit
  <2>4. CallInv' /\ GrantInv' /\ TokenInv'
    BY <1>0, <1>3, <2>1 DEF ServerInv, TokenInv, CallInv, CallOK, Good, Held, PairOf, Issued,
       GrantInv, Legit
  <2>5. SessionInv'
    <3>1. rq.api = "login" /\ rq.user \notin crowded' =>
             \A d \in Calls : call[d].api = "login" /\ call[d].user = rq.user => ~Busy(d)
      BY <1>3 DEF Arrives, InProgress, Busy
    <3>2. SessionKept'
      BY <1>0, <2>2 DEF ServerInv, SessionInv, SessionKept
    <3> QED
      BY <1>0, <1>3, <2>1, <2>2, <3>1, <3>2 DEF ServerInv, SessionInv, Busy, Legit
  <2>6. RegisterInv'
    <3>1. rq.api = "reg" /\ rq.user \notin doubtful' =>
             \A d \in Calls : call[d].api = "reg" /\ call[d].user = rq.user => ~Busy(d)
      BY <1>3 DEF Arrives, InProgress, Busy
    <3> QED
      BY <1>0, <1>3, <2>1, <2>2, <3>1 DEF ServerInv, RegisterInv, RegisterStands, Busy, Legit
  <2> QED
    BY <2>1, <2>3, <2>4, <2>5, <2>6 DEF ServerInv
<1> QED
  BY <1>1, <1>2, <1>3 DEF BrowserMoves

-----------------------------------------------------------------------------
(* The browser's half.                                                     *)

\* The browser keeps what it has while the server works.
LEMMA ServeBrowser ==
    ASSUME Types, CallInv, BrowserInv, NEW c \in Calls, Serve(c), UNCHANGED browser
    PROVE  BrowserTypes' /\ BrowserInv'
<1>0. ServeMoves(c)
  BY ServeEffect
<1>1. granted \subseteq granted' /\ UNCHANGED <<cookie, tab, asker>>
  BY <1>0 DEF ServeMoves, browser
<1>2. \A d \in Calls : call'[d].api = call[d].api /\ call'[d].user = call[d].user
                         /\ call'[d].file = call[d].file
  BY <1>0 DEF ServeMoves, Types
<1>3. BrowserTypes'
  BY <1>1 DEF Types, BrowserTypes
<1>4. CookieInv' /\ TabInv'
  BY <1>1 DEF BrowserInv, CookieInv, CookieOK, TabInv, DocOK, Good, Held, PairOf
<1>5. \A t \in Tabs : tab[t].wait \in Calls \cup {None}
  BY DEF Types, BrowserTypes, Document
<1>6. AskInv'
  BY <1>1, <1>2, <1>5 DEF BrowserInv, AskInv, WaitOK, AskOK, OneUpload, UploadCall
<1> QED
  BY <1>3, <1>4, <1>6 DEF BrowserInv

LEMMA ExpireBrowser ==
    ASSUME Types, BrowserInv, NEW u \in Users, Expire(u), UNCHANGED browser
    PROVE  BrowserTypes' /\ BrowserInv'
<1>1. UNCHANGED <<granted, call, cookie, tab, asker>>
  BY DEF Expire, browser
<1> QED
  BY <1>1 DEF Types, BrowserTypes, BrowserInv, CookieInv, CookieOK, TabInv, DocOK, Good, Held,
     PairOf, AskInv,
     WaitOK, AskOK, OneUpload, UploadCall

\* What the cookies hold after setCookie.
LEMMA WrittenOK ==
    ASSUME Types, NEW k \in Cookies, CookieOK(k), NEW u \in Users \cup {None},
           NEW tk \in Tokens \cup {None, Undef}, tk # None => u \in Users /\ PairOf(u, tk),
           NEW j \in Written(k, u, tk)
    PROVE  j \in Cookies /\ CookieOK(j) /\ (k.odd => j.odd)
<1>1. CASE k.odd \/ u \notin Plain \cup {None}
  <2>1. j \in [userName : Users \cup {None, Undef}, token : {tk, k.token, None, Undef}, odd : {TRUE}]
    BY <1>1 DEF Written
  <2>2. tk # None => Held(tk)
    BY DEF Held, PairOf
  <2> QED
    BY <2>1, <2>2 DEF Cookies, CookieOK, Held
<1>2. CASE ~(k.odd \/ u \notin Plain \cup {None})
  <2>1. j = [userName |-> u, token |-> tk, odd |-> FALSE]
    BY <1>2 DEF Written
  <2>2. tk # None => Good(u, tk, FALSE)
    BY DEF Good, Held, PairOf
  <2> QED
    BY <1>2, <2>1, <2>2 DEF Cookies, CookieOK, Good
<1> QED
  BY <1>1, <1>2

\* The pages a router shows: none without both cookies, and never the loop, or
\* a blank one, as long as all names are read back.
LEMMA ShownPage ==
    ASSUME NEW d \in Document, NEW path \in {"login", "reg", "files"},
           NEW k \in Cookies, CookieOK(k)
    PROVE  LET s == Shown(d, path, k) IN
           /\ s \in Document /\ s.wait = None /\ s.installed = d.installed
           /\ s.page \in Pages /\ (~k.odd => s.page \notin {"loop", "blank"})
           /\ s.up = [d.up EXCEPT !.mounted = FALSE] /\ s.up \in Upload
           /\ s.page = "files" => s.user = k.userName /\ s.token = k.token /\ Good(s.user, s.token, k.odd)
<1> DEFINE p == Landing(path, k)
<1>0. ~k.odd /\ k.token # None => k.userName \in Users
  BY DEF CookieOK, Good
<1>1. /\ p \in Pages
      /\ ~k.odd => p \notin {"loop", "blank"}
      /\ p = "files" => k.token # None /\ k.userName \in Users
  BY <1>0 DEF Landing, Pages, CookieOK, Cookies
<1>2. p = "files" => Good(k.userName, k.token, k.odd)
  BY <1>1 DEF CookieOK, Good
<1>3. [d.up EXCEPT !.mounted = FALSE] \in Upload
  BY DEF Document, Upload
<1>4. k.userName \in Users \cup {None, Undef} /\ k.token \in Tokens \cup {None, Undef}
  BY DEF Cookies
<1> HIDE DEF p
<1> QED
  BY <1>1, <1>2, <1>3, <1>4 DEF Shown, Document, p

LEMMA VisitKeeps ==
    ASSUME Types, BrowserInv, NEW t \in Tabs, NEW d \in Document, NEW path \in Paths,
           Chunks \subseteq d.installed, d.up = tab[t].up,
           Visit(t, d, path), UNCHANGED <<granted, call, asker>>
    PROVE  BrowserTypes' /\ BrowserInv'
<1> DEFINE p == IF path = "logout" THEN "login" ELSE path
<1>0. PICK k \in IF path = "logout" THEN LoggedOut(cookie) ELSE {cookie} :
             cookie' = k /\ tab' = [tab EXCEPT ![t] = Shown(d, p, k)]
  BY DEF Visit
<1> DEFINE s == Shown(d, p, k)
<1>1. cookie' = k /\ tab' = [tab EXCEPT ![t] = s]
  BY <1>0
<1>2. k \in Cookies /\ CookieOK(k) /\ (cookie.odd => k.odd)
  <2>1. cookie \in Cookies /\ CookieOK(cookie)
    BY DEF Types, BrowserTypes, BrowserInv, CookieInv
  <2>2. path = "logout" => k \in Written(cookie, None, None)
    BY <1>0 DEF LoggedOut
  <2>3. path # "logout" => k = cookie
    BY <1>0
  <2> QED
    BY <2>1, <2>2, <2>3, WrittenOK
<1>4. p \in {"login", "reg", "files"}
  BY DEF Paths
<1> HIDE DEF p
<1>5. /\ s \in Document /\ s.wait = None /\ s.installed = d.installed
      /\ s.page \in Pages /\ (~k.odd => s.page \notin {"loop", "blank"})
      /\ s.up = [d.up EXCEPT !.mounted = FALSE] /\ s.up \in Upload
      /\ s.page = "files" => Good(s.user, s.token, k.odd)
  BY <1>2, <1>4, ShownPage
<1> HIDE DEF s
<1>6. /\ s.up.st = tab[t].up.st /\ s.up.user = tab[t].up.user /\ s.up.token = tab[t].up.token
      /\ s.up.file = tab[t].up.file /\ s.up.refused = tab[t].up.refused
  BY <1>5 DEF Document, Upload
<1>7. tab \in [Tabs -> Document] /\ tab'[t] = s /\ \A v \in Tabs : v # t => tab'[v] = tab[v]
  BY <1>1 DEF Types, BrowserTypes
<1>8. BrowserTypes'
  BY <1>1, <1>2, <1>5, <1>7 DEF Types, BrowserTypes
<1>9. CookieInv'
  BY <1>1, <1>2 DEF CookieInv, CookieOK, Good, Held, PairOf
<1>10. TabInv'
  <2>1. ASSUME NEW v \in Tabs, v # t PROVE DocOK(tab[v], cookie.odd)'
    BY <1>1, <1>2, <1>7, <2>1 DEF BrowserInv, TabInv, DocOK, Good, Held, PairOf
  <2>2. DocOK(tab[t], cookie.odd)
    BY DEF BrowserInv, TabInv
  <2>3. DocOK(s, k.odd)
    BY <1>2, <1>5, <1>6, <2>2 DEF DocOK, Good
  <2>4. DocOK(tab[t], cookie.odd)'
    BY <1>1, <1>7, <2>3 DEF DocOK, Good, Held, PairOf
  <2> QED
    BY <2>1, <2>4 DEF TabInv
<1>11. AskInv'
  <2>1. (\A v \in Tabs : WaitOK(v))'
    BY <1>5, <1>7 DEF BrowserInv, AskInv, WaitOK
  <2>2. \A v \in Tabs : /\ tab'[v].up.st = tab[v].up.st /\ tab'[v].up.user = tab[v].up.user
                        /\ tab'[v].up.file = tab[v].up.file
    BY <1>6, <1>7
  <2>3. (\A c \in Calls : AskOK(c))'
    BY <2>2 DEF BrowserInv, AskInv, AskOK, UploadCall, Types, BrowserTypes
  <2>4. OneUpload'
    BY DEF BrowserInv, AskInv, OneUpload, UploadCall
  <2> QED
    BY <2>1, <2>3, <2>4 DEF AskInv
<1> QED
  BY <1>8, <1>9, <1>10, <1>11 DEF BrowserInv

LEMMA TabKeeps ==
    ASSUME Types, BrowserInv, NEW t \in Tabs, NEW d \in Document,
           tab' = [tab EXCEPT ![t] = d], UNCHANGED <<granted, call, asker, cookie>>,
           DocOK(d, cookie.odd), d.wait = tab[t].wait, tab[t].page # None => d.page # None,
           tab[t].up.st \in {"check", "send"} => d.up = tab[t].up
    PROVE  BrowserTypes' /\ BrowserInv'
<1>1. tab \in [Tabs -> Document] /\ tab'[t] = d /\ \A v \in Tabs : v # t => tab'[v] = tab[v]
  BY DEF Types, BrowserTypes
<1>2. BrowserTypes'
  BY <1>1 DEF Types, BrowserTypes
<1>3. CookieInv'
  BY DEF BrowserInv, CookieInv, CookieOK, Good, Held, PairOf
<1>4. TabInv'
  BY <1>1 DEF BrowserInv, TabInv, DocOK, Good, Held, PairOf
<1>5. AskInv'
  BY <1>1 DEF BrowserInv, AskInv, WaitOK, AskOK, OneUpload, UploadCall
<1> QED
  BY <1>2, <1>3, <1>4, <1>5 DEF BrowserInv

\* The documents' own steps, which ask the server for nothing.
QuietStep(t) ==
    \/ LoadVendor(t) \/ LoadMain(t) \/ Reload(t) \/ Refresh(t) \/ HashFails(t)
    \/ (\E path \in Paths : Goto(t, path)) \/ (\E f \in Files : PickFile(t, f))

LEMMA QuietKeeps ==
    ASSUME Types, BrowserInv, NEW t \in Tabs, QuietStep(t)
    PROVE  BrowserMoves /\ BrowserTypes' /\ BrowserInv'
<1>0. tab[t] \in Document /\ DocOK(tab[t], cookie.odd) /\ tab[t].up \in Upload /\ tab \in [Tabs -> Document]
  BY DEF Types, BrowserTypes, BrowserInv, TabInv, Document
<1>1. BrowserMoves /\ UNCHANGED <<granted, call>>
  BY DEF QuietStep, LoadVendor, LoadMain, Reload, Refresh, HashFails, Goto, PickFile, BrowserMoves,
     server
<1>2. CASE LoadVendor(t)
  <2> DEFINE d == [tab[t] EXCEPT !.installed = @ \cup {"vendor"}]
  <2>1. /\ d \in Document /\ DocOK(d, cookie.odd) /\ d.wait = tab[t].wait /\ d.page = tab[t].page
        /\ d.up = tab[t].up
    BY <1>0 DEF Document, Chunks, DocOK
  <2>2. tab' = [tab EXCEPT ![t] = d] /\ UNCHANGED <<cookie, asker>>
    BY <1>2 DEF LoadVendor
  <2> QED
    BY <1>1, <2>1, <2>2, TabKeeps
<1>3. CASE LoadMain(t)
  <2> DEFINE d == [tab[t] EXCEPT !.pushed = TRUE]
  <2>1. /\ d \in Document /\ DocOK(d, cookie.odd) /\ d.wait = tab[t].wait /\ d.page = tab[t].page
        /\ d.up = tab[t].up
    BY <1>0 DEF Document, DocOK
  <2>2. UNCHANGED asker
    BY <1>3 DEF LoadMain
  <2>3. CASE tab' = [tab EXCEPT ![t] = d] /\ UNCHANGED cookie
    BY <1>1, <2>1, <2>2, <2>3, TabKeeps
  <2>4. ASSUME NEW path \in Paths, RunDeferred(d), Visit(t, d, path)
        PROVE  BrowserTypes' /\ BrowserInv'
    <3>1. Chunks \subseteq d.installed
      BY <2>4 DEF RunDeferred
    <3> QED
      BY <1>1, <2>1, <2>2, <2>4, <3>1, VisitKeeps
  <2> QED
    BY <1>1, <1>3, <2>3, <2>4 DEF LoadMain
<1>4. CASE Reload(t)
  <2>1. Blank \in Document /\ DocOK(Blank, cookie.odd) /\ Blank.wait = None /\ Blank.up.st = "none"
    BY DEF Blank, NoUpload, Document, Upload, Chunks, DocOK, Pages
  <2>2. /\ tab'[t] = Blank /\ \A v \in Tabs : v # t => tab'[v] = tab[v]
        /\ tab' \in [Tabs -> Document]
    BY <1>0, <1>4, <2>1 DEF Reload
  <2>3. /\ \A c \in Calls : asker'[c] = IF asker[c] = t THEN None ELSE asker[c]
        /\ asker' \in [Calls -> Tabs \cup {None}] /\ cookie' = cookie
    BY <1>4 DEF Reload, Types, BrowserTypes
  <2>4. BrowserTypes' /\ CookieInv'
    BY <1>1, <2>2, <2>3 DEF Types, BrowserTypes, BrowserInv, CookieInv, CookieOK, Good, Held, PairOf
  <2>5. TabInv'
    BY <1>1, <2>1, <2>2, <2>3 DEF BrowserInv, TabInv, DocOK, Good, Held, PairOf
  <2>6. AskInv'
    BY <1>0, <1>1, <2>1, <2>2, <2>3 DEF BrowserInv, AskInv, WaitOK, AskOK, OneUpload, UploadCall,
       Document
  <2> QED
    BY <1>1, <2>4, <2>5, <2>6 DEF BrowserInv
<1>5. CASE Refresh(t)
  <2> DEFINE d == [tab[t] EXCEPT !.fetch = TRUE]
  <2>1. /\ d \in Document /\ DocOK(d, cookie.odd) /\ d.wait = tab[t].wait /\ d.page = tab[t].page
        /\ d.up = tab[t].up
    BY <1>0 DEF Document, DocOK
  <2>2. tab' = [tab EXCEPT ![t] = d] /\ UNCHANGED <<cookie, asker>>
    BY <1>5 DEF Refresh
  <2> QED
    BY <1>1, <2>1, <2>2, TabKeeps
<1>6. CASE HashFails(t)
  <2> DEFINE d == [tab[t] EXCEPT !.up = NoUpload]
  <2>0. NoUpload \in Upload /\ NoUpload.st = "none"
    BY DEF Upload, NoUpload
  <2>1. /\ d \in Document /\ DocOK(d, cookie.odd) /\ d.wait = tab[t].wait /\ d.page = tab[t].page
    BY <1>0, <2>0 DEF Document, DocOK
  <2>2. tab' = [tab EXCEPT ![t] = d] /\ UNCHANGED <<cookie, asker>> /\ tab[t].up.st = "hash"
    BY <1>6 DEF HashFails
  <2> QED
    BY <1>1, <2>1, <2>2, TabKeeps
<1>7. ASSUME NEW path \in Paths, Goto(t, path) PROVE BrowserTypes' /\ BrowserInv'
  <2>1. Chunks \subseteq tab[t].installed
    BY <1>0, <1>7 DEF Goto, Started, DocOK
  <2> QED
    BY <1>0, <1>1, <1>7, <2>1, VisitKeeps DEF Goto
<1>8. ASSUME NEW f \in Files, PickFile(t, f) PROVE BrowserTypes' /\ BrowserInv'
  <2> DEFINE u == [st |-> "hash", file |-> f, mounted |-> TRUE, refused |-> Refused(f),
                   user |-> tab[t].user, token |-> tab[t].token]
             d == [tab[t] EXCEPT !.up = u]
  <2>1. u \in Upload
    BY <1>0 DEF Upload, Document, Refused
  <2>2. /\ d \in Document /\ d.wait = tab[t].wait /\ d.page = tab[t].page
    BY <1>0, <2>1 DEF Document
  <2>3. DocOK(d, cookie.odd)
    BY <1>0, <1>8 DEF PickFile, DocOK, Refused, Document
  <2>4. tab' = [tab EXCEPT ![t] = d] /\ UNCHANGED <<cookie, asker>> /\ tab[t].up.st = "none"
    BY <1>8 DEF PickFile
  <2> QED
    BY <1>1, <2>2, <2>3, <2>4, TabKeeps
<1> QED
  BY <1>1, <1>2, <1>3, <1>4, <1>5, <1>6, <1>7, <1>8 DEF QuietStep

\* A document begins a call.
LEMMA AskKeeps ==
    ASSUME Types, BrowserInv, NEW t \in Tabs, NEW c \in Calls, NEW d \in Document, NEW rq \in CallRec,
           call[c] = Free, call' = [call EXCEPT ![c] = rq], asker' = [asker EXCEPT ![c] = t],
           tab' = [tab EXCEPT ![t] = d], UNCHANGED <<cookie, granted>>,
           DocOK(d, cookie.odd), d.page = tab[t].page,
           d.wait = tab[t].wait \/ (d.wait = c /\ d.page # None /\ rq.api \in {"login", "reg"}),
           \/ rq.api \in {"login", "reg", "list"} /\ d.up = tab[t].up
           \/ /\ rq.api = "md5" /\ tab[t].up.st = "hash" /\ d.up.st = "check"
              /\ rq.user = d.up.user /\ rq.file = d.up.file
    PROVE  BrowserTypes' /\ BrowserInv'
<1>1. tab \in [Tabs -> Document] /\ tab'[t] = d /\ \A v \in Tabs : v # t => tab'[v] = tab[v]
  BY DEF Types, BrowserTypes
<1>2. call'[c] = rq /\ \A b \in Calls : b # c => call'[b] = call[b]
  BY DEF Types
<1>3. asker'[c] = t /\ \A b \in Calls : b # c => asker'[b] = asker[b]
  BY DEF Types, BrowserTypes
<1>4. BrowserTypes'
  BY <1>1 DEF Types, BrowserTypes
<1>5. CookieInv'
  BY DEF BrowserInv, CookieInv, CookieOK, Good, Held, PairOf
<1>6. TabInv'
  BY <1>1 DEF BrowserInv, TabInv, DocOK, Good, Held, PairOf
<1>7. call[c].api = None
  BY DEF Free
<1>8. \A v \in Tabs : tab[v].wait # c /\ tab[v].wait \in Calls \cup {None}
  BY <1>1, <1>7 DEF BrowserInv, AskInv, WaitOK, Apis, Document
<1>9. (\A v \in Tabs : WaitOK(v))'
  BY <1>1, <1>2, <1>3, <1>8 DEF BrowserInv, AskInv, WaitOK
<1>10. \A b \in Calls : b # c /\ asker[b] = t /\ UploadCall(b) => d.up = tab[t].up
  BY DEF BrowserInv, AskInv, AskOK
<1>11. (\A b \in Calls : AskOK(b))'
  <2>1. AskOK(c)'
    BY <1>1, <1>2, <1>3 DEF AskOK, UploadCall, Apis
  <2>2. ASSUME NEW b \in Calls, b # c PROVE AskOK(b)'
    BY <1>1, <1>2, <1>3, <1>10, <2>2 DEF BrowserInv, AskInv, AskOK, UploadCall, Types, BrowserTypes
  <2> QED
    BY <2>1, <2>2
<1>12. OneUpload'
  <2>1. rq.api = "md5" => \A b \in Calls : asker[b] = t => ~UploadCall(b)
    BY DEF BrowserInv, AskInv, AskOK
  <2> QED
    BY <1>2, <1>3, <2>1 DEF BrowserInv, AskInv, OneUpload, UploadCall
<1> QED
  BY <1>4, <1>5, <1>6, <1>9, <1>11, <1>12 DEF BrowserInv, AskInv

\* A document's call ends, or goes over into a next one.
LEMMA EndKeeps ==
    ASSUME Types, BrowserInv, NEW t \in Tabs, NEW c \in Calls, asker[c] = t,
           NEW d \in Document, NEW rq \in CallRec, call' = [call EXCEPT ![c] = rq],
           \/ asker' = [asker EXCEPT ![c] = None]
           \/ /\ UNCHANGED asker /\ UploadCall(c) /\ rq.api \in {"list", "upload"}
              /\ rq.api = "upload" => d.up.st = "send",
           tab' = [tab EXCEPT ![t] = d], UNCHANGED granted,
           cookie' \in Cookies, CookieInv', cookie.odd => cookie'.odd,
           DocOK(d, cookie'.odd), d.wait = None \/ (d.wait = tab[t].wait /\ d.wait # c /\ d.page = tab[t].page),
           \/ UploadCall(c)
           \/ /\ d.up.st = tab[t].up.st /\ d.up.user = tab[t].up.user
              /\ d.up.file = tab[t].up.file
    PROVE  BrowserTypes' /\ BrowserInv'
<1>1. tab \in [Tabs -> Document] /\ tab'[t] = d /\ \A v \in Tabs : v # t => tab'[v] = tab[v]
  BY DEF Types, BrowserTypes
<1>2. call'[c] = rq /\ \A b \in Calls : b # c => call'[b] = call[b]
  BY DEF Types
<1>3. /\ asker'[c] \in {None, asker[c]} /\ \A b \in Calls : b # c => asker'[b] = asker[b]
      /\ asker'[c] # None => /\ UploadCall(c) /\ rq.api \in {"list", "upload"}
                             /\ rq.api = "upload" => d.up.st = "send"
  BY DEF Types, BrowserTypes
<1>4. BrowserTypes'
  BY <1>1 DEF Types, BrowserTypes
<1>5. TabInv'
  BY <1>1 DEF BrowserInv, TabInv, DocOK, Good, Held, PairOf
<1>6. \A v \in Tabs : v # t => tab[v].wait # c
  BY DEF BrowserInv, AskInv, WaitOK
<1>7. (\A v \in Tabs : WaitOK(v))'
  BY <1>1, <1>2, <1>3, <1>6 DEF BrowserInv, AskInv, WaitOK, Document
<1>8. \A b \in Calls : b # c /\ asker[b] = t /\ UploadCall(b) => ~UploadCall(c)
  BY DEF BrowserInv, AskInv, OneUpload
<1>9. (\A b \in Calls : AskOK(b))'
  <2>1. AskOK(c)'
    BY <1>1, <1>2, <1>3 DEF AskOK, UploadCall, Apis
  <2>2. ASSUME NEW b \in Calls, b # c PROVE AskOK(b)'
    BY <1>1, <1>2, <1>3, <1>8, <2>2 DEF BrowserInv, AskInv, AskOK, UploadCall, Types, BrowserTypes
  <2> QED
    BY <2>1, <2>2
<1>10. OneUpload'
  BY <1>2, <1>3, <1>8 DEF BrowserInv, AskInv, OneUpload, UploadCall
<1> QED
  BY <1>4, <1>5, <1>7, <1>9, <1>10 DEF BrowserInv, AskInv

LEMMA NewCall ==
    ASSUME NEW api \in Apis, NEW u \in Users, NEW cred \in Creds, NEW f \in Files \cup {None}
    PROVE  LET rq == New(api, u, cred, f) IN
           /\ rq \in CallRec /\ rq.pc = "recv" /\ rq.code = 0
           /\ rq.api = api /\ rq.user = u /\ rq.cred = cred /\ rq.file = f
BY DEF New, Free, CallRec, CallPcs, Creds

LEMMA AskMoves ==
    ASSUME NEW t \in Tabs, NEW c \in Calls, NEW rq \in CallRec, Legit(rq), Ask(c, t, rq)
    PROVE  BrowserMoves /\ UNCHANGED <<cookie, granted>>
BY DEF Ask, BrowserMoves

LEMMA SubmitKeeps ==
    ASSUME Types, BrowserInv, NEW t \in Tabs, NEW c \in Calls, NEW u \in Users, NEW p \in Pwds,
           Submit(t, c, u, p)
    PROVE  BrowserMoves /\ BrowserTypes' /\ BrowserInv'
<1> DEFINE rq == New(tab[t].page, u, p, None)
           d == [tab[t] EXCEPT !.wait = c]
<1>0. tab[t] \in Document /\ DocOK(tab[t], cookie.odd)
  BY DEF Types, BrowserTypes, BrowserInv, TabInv
<1>1. tab[t].page \in {"login", "reg"} /\ Ask(c, t, rq) /\ tab' = [tab EXCEPT ![t] = d]
  BY DEF Submit
<1>2. /\ rq \in CallRec /\ rq.pc = "recv" /\ rq.code = 0
      /\ rq.api = tab[t].page /\ rq.user = u /\ rq.cred = p
  BY <1>1, NewCall DEF Creds, Apis
<1>3. d \in Document /\ DocOK(d, cookie.odd) /\ d.page = tab[t].page /\ d.wait = c /\ d.up = tab[t].up
  BY <1>0 DEF Document, DocOK
<1>4. Legit(rq)
  BY <1>1, <1>2 DEF Legit, Apis
<1> HIDE DEF rq, d
<1>5. BrowserMoves /\ UNCHANGED <<cookie, granted>>
  BY <1>1, <1>2, <1>4, AskMoves
<1>6. d.page # None
  BY <1>1, <1>3 DEF Pages
<1>7. call[c] = Free /\ call' = [call EXCEPT ![c] = rq] /\ asker' = [asker EXCEPT ![c] = t]
  BY <1>1 DEF Ask
<1> QED
  BY <1>1, <1>2, <1>3, <1>5, <1>6, <1>7, AskKeeps

LEMMA FetchKeeps ==
    ASSUME Types, BrowserInv, NEW t \in Tabs, NEW c \in Calls, Fetch(t, c)
    PROVE  BrowserMoves /\ BrowserTypes' /\ BrowserInv'
<1> DEFINE rq == New("list", tab[t].user, tab[t].token, None)
           d == [tab[t] EXCEPT !.fetch = FALSE]
<1>0. tab[t] \in Document /\ DocOK(tab[t], cookie.odd)
  BY DEF Types, BrowserTypes, BrowserInv, TabInv
<1>1. tab[t].page = "files" /\ Ask(c, t, rq) /\ tab' = [tab EXCEPT ![t] = d]
  BY DEF Fetch
<1>2. tab[t].user \in Users /\ tab[t].token \in Creds /\ Held(tab[t].token)
  BY <1>0, <1>1 DEF DocOK, Good, Document, Creds
<1>3. /\ rq \in CallRec /\ rq.pc = "recv" /\ rq.code = 0
      /\ rq.api = "list" /\ rq.user = tab[t].user /\ rq.cred = tab[t].token
  BY <1>2, NewCall DEF Apis
<1>4. d \in Document /\ DocOK(d, cookie.odd) /\ d.page = tab[t].page /\ d.wait = tab[t].wait /\ d.up = tab[t].up
  BY <1>0 DEF Document, DocOK
<1> HIDE DEF rq, d
<1>5. Legit(rq)
  BY <1>2, <1>3 DEF Legit, Apis
<1>6. BrowserMoves /\ UNCHANGED <<cookie, granted>>
  BY <1>1, <1>3, <1>5, AskMoves
<1>7. d.page # None
  BY <1>1, <1>4 DEF Pages
<1>8. call[c] = Free /\ call' = [call EXCEPT ![c] = rq] /\ asker' = [asker EXCEPT ![c] = t]
  BY <1>1 DEF Ask
<1> QED
  BY <1>1, <1>3, <1>4, <1>6, <1>7, <1>8, AskKeeps

LEMMA HashedKeeps ==
    ASSUME Types, BrowserInv, NEW t \in Tabs, NEW c \in Calls, Hashed(t, c)
    PROVE  BrowserMoves /\ BrowserTypes' /\ BrowserInv'
<1> DEFINE u == tab[t].up
           rq == New("md5", u.user, u.token, u.file)
           d == [tab[t] EXCEPT !.up = [@ EXCEPT !.st = "check"]]
<1>0. tab[t] \in Document /\ DocOK(tab[t], cookie.odd) /\ u \in Upload
  BY DEF Types, BrowserTypes, BrowserInv, TabInv, Document
<1>1. u.st = "hash" /\ Ask(c, t, rq) /\ tab' = [tab EXCEPT ![t] = d]
  BY DEF Hashed
<1>2. u.user \in Users /\ u.token \in Creds /\ Held(u.token) /\ u.file \in Files
  BY <1>0, <1>1 DEF DocOK, Good, Upload, Creds
<1>3. /\ rq \in CallRec /\ rq.pc = "recv" /\ rq.code = 0
      /\ rq.api = "md5" /\ rq.user = u.user /\ rq.cred = u.token /\ rq.file = u.file
  BY <1>2, NewCall DEF Apis
<1>4. /\ d \in Document /\ DocOK(d, cookie.odd) /\ d.page = tab[t].page /\ d.wait = tab[t].wait
      /\ d.up.st = "check" /\ d.up.user = u.user /\ d.up.file = u.file
  BY <1>0, <1>1 DEF Document, Upload, DocOK
<1> HIDE DEF rq, d
<1>5. Legit(rq)
  BY <1>2, <1>3 DEF Legit, Apis
<1>6. BrowserMoves /\ UNCHANGED <<cookie, granted>>
  BY <1>1, <1>3, <1>5, AskMoves
<1>7. call[c] = Free /\ call' = [call EXCEPT ![c] = rq] /\ asker' = [asker EXCEPT ![c] = t]
  BY <1>1 DEF Ask
<1> QED
  BY <1>1, <1>3, <1>4, <1>6, <1>7, AskKeeps

\* The answer to a login: the cookies get the pair that was answered.
LEMMA LoginAnsweredKeeps ==
    ASSUME Types, CallInv, BrowserInv, NEW c \in Calls, asker[c] # None,
           call[c].pc = "answered", LoginAnswered(asker[c], c), UNCHANGED server
    PROVE  BrowserTypes' /\ BrowserInv'
<1> DEFINE t == asker[c]
<1>0. /\ t \in Tabs /\ tab[t] \in Document /\ DocOK(tab[t], cookie.odd) /\ Free \in CallRec
      /\ tab \in [Tabs -> Document] /\ call[c] \in CallRec
  BY DEF Types, BrowserTypes, BrowserInv, TabInv, Free, CallRec, CallPcs, Creds
<1>1. /\ call' = [call EXCEPT ![c] = Free] /\ asker' = [asker EXCEPT ![c] = None]
      /\ call[c].api = "login" /\ ~UploadCall(c) /\ granted' = granted
  BY DEF LoginAnswered, Done, UploadCall, server
<1>4. asker[c] = t
  OBVIOUS
<1> HIDE DEF t
<1>2. CASE call[c].code # 0
  <2> DEFINE d == [tab[t] EXCEPT !.wait = IF @ = c THEN None ELSE @]
  <2>1. /\ d \in Document /\ DocOK(d, cookie.odd) /\ d.page = tab[t].page /\ d.up = tab[t].up
        /\ d.wait = None \/ (d.wait = tab[t].wait /\ d.wait # c)
    BY <1>0 DEF Document, DocOK
  <2>2. tab' = [tab EXCEPT ![t] = d] /\ cookie' = cookie
    BY <1>2 DEF LoginAnswered, NoMoreWait, t
  <2>3. cookie' \in Cookies /\ CookieInv' /\ cookie'.odd = cookie.odd
    BY <1>1, <2>2 DEF Types, BrowserTypes, BrowserInv, CookieInv, CookieOK, Good, Held, PairOf
  <2> HIDE DEF d
  <2> QED
    BY <1>0, <1>1, <1>4, <2>1, <2>2, <2>3, EndKeeps
<1>3. CASE call[c].code = 0
  <2> DEFINE k == cookie'
             s == Shown(tab[t], "files", k)
             d == IF Waiting(t, c) THEN s ELSE tab[t]
  <2>1. k \in Written(cookie, call[c].user, call[c].token) /\ tab' = [tab EXCEPT ![t] = d]
    BY <1>0, <1>3 DEF LoginAnswered, LoginCookie, t
  <2>2. call[c].user \in Users /\ PairOf(call[c].user, call[c].token)
    BY <1>1, <1>3 DEF CallInv, CallOK
  <2>3. cookie \in Cookies /\ CookieOK(cookie) /\ call[c].token \in Tokens \cup {None, Undef}
    BY <1>0 DEF Types, BrowserTypes, BrowserInv, CookieInv, CallRec
  <2>4. k \in Cookies /\ CookieOK(k) /\ (cookie.odd => k.odd)
    BY <2>1, <2>2, <2>3, WrittenOK
  <2>5. CookieInv'
    BY <1>1, <2>4 DEF CookieInv, CookieOK, Good, Held, PairOf
  <2>6. /\ s \in Document /\ s.wait = None /\ s.installed = tab[t].installed
        /\ s.page \in Pages /\ (~k.odd => s.page \notin {"loop", "blank"})
        /\ s.up = [tab[t].up EXCEPT !.mounted = FALSE] /\ s.up \in Upload
        /\ s.page = "files" => Good(s.user, s.token, k.odd)
    BY <1>0, <2>4, ShownPage
  <2> HIDE DEF s
  <2>7. /\ s.up.st = tab[t].up.st /\ s.up.user = tab[t].up.user /\ s.up.token = tab[t].up.token
        /\ s.up.file = tab[t].up.file /\ s.up.refused = tab[t].up.refused
    BY <1>0, <2>6 DEF Document, Upload
  <2>8. CASE Waiting(t, c)
    <3>1. Chunks \subseteq tab[t].installed
      BY <1>0, <2>8 DEF Waiting, BrowserInv, AskInv, WaitOK, DocOK
    <3>2. DocOK(s, k.odd)
      BY <1>0, <2>4, <2>6, <2>7, <3>1 DEF DocOK, Good
    <3>3. d = s
      BY <2>8
    <3> HIDE DEF d
    <3> QED
      BY <1>0, <1>1, <2>1, <2>4, <2>5, <2>6, <2>7, <1>4, <3>2, <3>3, EndKeeps
  <2>9. CASE ~Waiting(t, c)
    <3>1. d = tab[t] /\ tab[t].wait # c
      BY <2>9 DEF Waiting
    <3>2. DocOK(tab[t], k.odd)
      BY <1>0, <2>4 DEF DocOK, Good
    <3> HIDE DEF d
    <3> QED
      BY <1>0, <1>1, <2>1, <2>4, <2>5, <1>4, <3>1, <3>2, EndKeeps
  <2> QED
    BY <2>8, <2>9
<1> QED
  BY <1>2, <1>3

\* The answer to a registration, and to the request of a table.
LEMMA PlainAnswerKeeps ==
    ASSUME Types, BrowserInv, NEW c \in Calls, asker[c] # None,
           RegAnswered(asker[c], c) \/ ListAnswered(asker[c], c), UNCHANGED server
    PROVE  BrowserTypes' /\ BrowserInv'
<1> DEFINE t == asker[c]
           d == IF call[c].api = "reg" THEN [tab[t] EXCEPT !.wait = IF @ = c THEN None ELSE @]
                ELSE tab[t]
<1>0. /\ t \in Tabs /\ tab[t] \in Document /\ DocOK(tab[t], cookie.odd) /\ Free \in CallRec
      /\ tab \in [Tabs -> Document] /\ asker[c] = t
  BY DEF Types, BrowserTypes, BrowserInv, TabInv, Free, CallRec, CallPcs, Creds
<1>1. /\ call' = [call EXCEPT ![c] = Free] /\ asker' = [asker EXCEPT ![c] = None]
      /\ call[c].api \in {"reg", "list"} /\ UNCHANGED <<cookie, granted>>
  BY DEF RegAnswered, ListAnswered, Done, server
<1>2. tab' = [tab EXCEPT ![t] = d]
  BY <1>0 DEF RegAnswered, ListAnswered, NoMoreWait
<1> HIDE DEF t
<1>3. /\ d \in Document /\ DocOK(d, cookie.odd) /\ d.page = tab[t].page /\ d.up = tab[t].up
      /\ d.wait = tab[t].wait \/ d.wait = None
      /\ call[c].api = "reg" => d.wait # c
  BY <1>0 DEF Document, DocOK
<1>4. call[c].api = "list" => tab[t].wait # c
  BY <1>0 DEF BrowserInv, AskInv, WaitOK
<1> HIDE DEF d
<1>5. d.wait = None \/ (d.wait = tab[t].wait /\ d.wait # c /\ d.page = tab[t].page)
  BY <1>0, <1>1, <1>3, <1>4 DEF BrowserInv, AskInv, WaitOK
<1>6. cookie' \in Cookies /\ CookieInv' /\ cookie'.odd = cookie.odd
  BY <1>1 DEF Types, BrowserTypes, BrowserInv, CookieInv, CookieOK, Good, Held, PairOf
<1> QED
  BY <1>0, <1>1, <1>2, <1>3, <1>5, <1>6, EndKeeps

\* The answer to an upload's question, and to the upload.
LEMMA UploadStepKeeps ==
    ASSUME Types, CallInv, BrowserInv, NEW c \in Calls, asker[c] # None, call[c].pc = "answered",
           Md5Answered(asker[c], c) \/ UploadAnswered(asker[c], c), UNCHANGED server
    PROVE  BrowserMoves /\ BrowserTypes' /\ BrowserInv'
<1> DEFINE t == asker[c]
           up == tab[t].up
           sent1 == [tab[t] EXCEPT !.up = [@ EXCEPT !.st = "send"]]
           none == [tab[t] EXCEPT !.up = NoUpload]
           again == New("list", up.user, up.token, None)
           send == New("upload", up.user, None, up.file)
<1>0. /\ t \in Tabs /\ tab[t] \in Document /\ DocOK(tab[t], cookie.odd) /\ Free \in CallRec /\ up \in Upload
      /\ tab \in [Tabs -> Document] /\ asker[c] = t
  BY DEF Types, BrowserTypes, BrowserInv, TabInv, Free, CallRec, CallPcs, Creds, Document
<1>1. UploadCall(c) /\ UNCHANGED <<cookie, granted>>
  BY DEF Md5Answered, UploadAnswered, UploadCall, server
<1>2. up.st # "none" /\ (call[c].api = "md5" => call[c].user = up.user /\ call[c].file = up.file)
  BY <1>1 DEF BrowserInv, AskInv, AskOK
<1>3. /\ up.user \in Users /\ Held(up.token) /\ up.token \in Creds
      /\ up.file \in Files /\ (up.file \in Big => up.refused)
  BY <1>0, <1>2 DEF DocOK, Good, Upload, Creds
<1>4. /\ again \in CallRec /\ again.pc = "recv" /\ again.code = 0 /\ again.api = "list"
      /\ again.user = up.user /\ again.cred = up.token
  BY <1>3, NewCall DEF Apis
<1>5. /\ send \in CallRec /\ send.pc = "recv" /\ send.code = 0 /\ send.api = "upload"
      /\ send.user = up.user /\ send.file = up.file
  BY <1>3, NewCall DEF Apis, Creds
<1>6. none \in Document /\ DocOK(none, cookie.odd) /\ none.wait = tab[t].wait /\ none.page = tab[t].page
  <2>1. NoUpload \in Upload /\ NoUpload.st = "none"
    BY DEF NoUpload, Upload
  <2> QED
    BY <1>0, <2>1 DEF Document, DocOK
<1>7. /\ sent1 \in Document /\ DocOK(sent1, cookie.odd) /\ sent1.wait = tab[t].wait
      /\ sent1.page = tab[t].page /\ sent1.up.st = "send"
  BY <1>0, <1>2 DEF Document, Upload, DocOK
<1>8. \/ /\ tab' = [tab EXCEPT ![t] = none]
         /\ \/ call' = [call EXCEPT ![c] = Free] /\ asker' = [asker EXCEPT ![c] = None]
            \/ call' = [call EXCEPT ![c] = again] /\ UNCHANGED asker
      \/ /\ tab' = [tab EXCEPT ![t] = sent1] /\ call' = [call EXCEPT ![c] = send] /\ UNCHANGED asker
         /\ call[c].api = "md5" /\ call[c].code = 1 /\ ~up.refused
  BY <1>0 DEF Md5Answered, UploadAnswered, Then, Done
<1> HIDE DEF t, up, sent1, none, again, send
<1>9. tab[t].wait # None => tab[t].wait # c
  BY <1>0, <1>1 DEF BrowserInv, AskInv, WaitOK, UploadCall
<1>10. cookie' \in Cookies /\ CookieInv' /\ cookie'.odd = cookie.odd
  BY <1>1 DEF Types, BrowserTypes, BrowserInv, CookieInv, CookieOK, Good, Held, PairOf
<1>11. Legit(again)
  BY <1>3, <1>4 DEF Legit, Apis
<1>12. call[c].api = "md5" /\ call[c].code = 1 /\ ~up.refused => Legit(send)
  BY <1>2, <1>3, <1>5 DEF Legit, Apis, CallInv, CallOK
<1>13. Arrives("list", again.user) /\ Arrives("upload", send.user)
  BY <1>1 DEF Arrives, server
<1>14. BrowserMoves
  BY <1>1, <1>4, <1>5, <1>8, <1>11, <1>12, <1>13 DEF BrowserMoves, server
<1>15. CASE tab' = [tab EXCEPT ![t] = none] /\ call' = [call EXCEPT ![c] = Free]
              /\ asker' = [asker EXCEPT ![c] = None]
  <2>1. none.wait = None \/ (none.wait = tab[t].wait /\ none.wait # c /\ none.page = tab[t].page)
    BY <1>6, <1>9
  <2> QED
    BY <1>0, <1>1, <1>6, <1>10, <1>14, <1>15, <2>1, EndKeeps
<1>16. CASE tab' = [tab EXCEPT ![t] = none] /\ call' = [call EXCEPT ![c] = again] /\ UNCHANGED asker
  <2>1. none.wait = None \/ (none.wait = tab[t].wait /\ none.wait # c /\ none.page = tab[t].page)
    BY <1>6, <1>9
  <2> QED
    BY <1>0, <1>1, <1>4, <1>6, <1>10, <1>14, <1>16, <2>1, EndKeeps
<1>17. CASE tab' = [tab EXCEPT ![t] = sent1] /\ call' = [call EXCEPT ![c] = send] /\ UNCHANGED asker
  <2>1. sent1.wait = None \/ (sent1.wait = tab[t].wait /\ sent1.wait # c /\ sent1.page = tab[t].page)
    BY <1>7, <1>9
  <2> QED
    BY <1>0, <1>1, <1>5, <1>7, <1>10, <1>14, <1>17, <2>1, EndKeeps
<1> QED
  BY <1>8, <1>14, <1>15, <1>16, <1>17

\* Nobody answers: the rejection enables the form, and ends the upload.
LEMMA FailKeeps ==
    ASSUME Types, BrowserInv, NEW c \in Calls, Fail(c)
    PROVE  BrowserMoves /\ BrowserTypes' /\ BrowserInv'
<1> DEFINE t == asker[c]
           d == [tab[t] EXCEPT !.wait = IF @ = c THEN None ELSE @,
                               !.up = IF call[c].api \in {"md5", "upload"} THEN NoUpload ELSE @]
<1>0. /\ t \in Tabs /\ tab[t] \in Document /\ DocOK(tab[t], cookie.odd) /\ call[c] \in CallRec
      /\ tab \in [Tabs -> Document] /\ call \in [Calls -> CallRec] /\ asker[c] = t
  BY DEF Fail, Types, BrowserTypes, BrowserInv, TabInv
<1>1. /\ call' = [call EXCEPT ![c] = call[c]] /\ asker' = [asker EXCEPT ![c] = None]
      /\ UNCHANGED <<cookie, granted>>
  BY <1>0 DEF Fail, server
<1>2. BrowserMoves
  BY DEF Fail, BrowserMoves, server
<1>3. tab' = [tab EXCEPT ![t] = d]
  BY <1>0 DEF Fail
<1>4. NoUpload \in Upload /\ NoUpload.st = "none"
  BY DEF NoUpload, Upload
<1> HIDE DEF t
<1>5. /\ d \in Document /\ DocOK(d, cookie.odd) /\ d.page = tab[t].page
      /\ d.wait = None \/ (d.wait = tab[t].wait /\ d.wait # c /\ d.page = tab[t].page)
      /\ UploadCall(c) \/ d.up = tab[t].up
  BY <1>0, <1>4 DEF Document, DocOK, UploadCall
<1>6. cookie' \in Cookies /\ CookieInv' /\ cookie'.odd = cookie.odd
  BY <1>1 DEF Types, BrowserTypes, BrowserInv, CookieInv, CookieOK, Good, Held, PairOf
<1> HIDE DEF d
<1> QED
  BY <1>0, <1>1, <1>2, <1>3, <1>5, <1>6, EndKeeps

\* A call without a document goes.
LEMMA ForgetKeeps ==
    ASSUME Types, BrowserInv, NEW c \in Calls, Forget(c)
    PROVE  BrowserMoves /\ BrowserTypes' /\ BrowserInv'
<1>1. /\ asker[c] = None /\ call' = [call EXCEPT ![c] = Free] /\ UNCHANGED <<cookie, tab, asker, granted>>
      /\ BrowserMoves
  BY DEF Forget, server, browser, BrowserMoves
<1>2. BrowserTypes' /\ CookieInv' /\ TabInv'
  BY <1>1 DEF Types, BrowserTypes, BrowserInv, CookieInv, CookieOK, TabInv, DocOK, Good, Held,
     PairOf
<1>3. \A b \in Calls : b # c => call'[b] = call[b]
  BY <1>1 DEF Types
<1>4. \A t \in Tabs : tab[t].wait \in Calls \cup {None} /\ tab[t].wait # c
  BY <1>1 DEF Types, BrowserTypes, Document, BrowserInv, AskInv, WaitOK
<1>5. AskInv'
  BY <1>1, <1>3, <1>4 DEF BrowserInv, AskInv, WaitOK, AskOK, OneUpload, UploadCall
<1> QED
  BY <1>1, <1>2, <1>5 DEF BrowserInv

-----------------------------------------------------------------------------
LEMMA BrowserEffect ==
    ASSUME Types, CallInv, BrowserInv,
           \/ \E t \in Tabs : TabNext(t)
           \/ \E c \in Calls : Receive(c) \/ Fail(c) \/ Forget(c)
    PROVE  BrowserMoves /\ BrowserTypes' /\ BrowserInv'
<1>1. ASSUME NEW t \in Tabs, TabNext(t) PROVE BrowserMoves /\ BrowserTypes' /\ BrowserInv'
  BY <1>1, QuietKeeps, SubmitKeeps, FetchKeeps, HashedKeeps DEF TabNext, QuietStep
<1>2. ASSUME NEW c \in Calls, Receive(c) PROVE BrowserMoves /\ BrowserTypes' /\ BrowserInv'
  <2>1. asker[c] # None /\ call[c].pc = "answered" /\ UNCHANGED server
    BY <1>2 DEF Receive
  <2>2. CASE LoginAnswered(asker[c], c) \/ RegAnswered(asker[c], c) \/ ListAnswered(asker[c], c)
    <3>1. BrowserMoves
      BY <2>1, <2>2 DEF BrowserMoves, server, LoginAnswered, RegAnswered, ListAnswered, Done
    <3> QED
      BY <2>1, <2>2, <3>1, LoginAnsweredKeeps, PlainAnswerKeeps
  <2>3. CASE Md5Answered(asker[c], c) \/ UploadAnswered(asker[c], c)
    BY <2>1, <2>3, UploadStepKeeps
  <2> QED
    BY <1>2, <2>2, <2>3 DEF Receive
<1> QED
  BY <1>1, <1>2, FailKeeps, ForgetKeeps

LEMMA IInvPreserved == IInv /\ [Next]_vars => IInv'
<1> SUFFICES ASSUME IInv, [Next]_vars PROVE IInv'
  OBVIOUS
<1> USE DEF IInv
<1>1. ASSUME NEW c \in Calls, Serve(c), UNCHANGED browser PROVE IInv'
  <2>1. ServerTypes' /\ call' \in [Calls -> CallRec]
    BY <1>1, ServeEffect DEF ServerInv, ServeMoves, Types
  <2>2. ServerInv'
    BY <1>1, ServeCall, ServeGrant, ServeToken, ServeSession, ServeRegister DEF ServerInv
  <2>3. BrowserTypes' /\ BrowserInv'
    BY <1>1, ServeBrowser DEF ServerInv
  <2> QED
    BY <2>1, <2>2, <2>3 DEF Types
<1>2. ASSUME NEW u \in Users, Expire(u), UNCHANGED browser PROVE IInv'
  <2>1. call' \in [Calls -> CallRec]
    BY <1>2 DEF Expire, Types
  <2> QED
    BY <1>2, <2>1, ExpireServer, ExpireBrowser DEF Types
<1>3. CASE \/ \E t \in Tabs : TabNext(t)
           \/ \E c \in Calls : Receive(c) \/ Fail(c) \/ Forget(c)
  BY <1>3, BrowserEffect, BrowserServer DEF Types, ServerInv
<1>4. CASE UNCHANGED vars
  <2>1. UNCHANGED <<user_info, redis, made, granted, expired, missed, crowded, doubtful, call,
                    cookie, tab, asker>>
    BY <1>4 DEF vars, server, browser
  <2>2. Types' /\ ServerInv'
    BY <2>1 DEF Types, ServerTypes, BrowserTypes, ServerInv, CallInv, CallOK, Held, PairOf, Issued,
       GrantInv, TokenInv, SessionInv, SessionKept, Busy, RegisterInv, RegisterStands
  <2>3. BrowserInv'
    BY <2>1 DEF BrowserInv, CookieInv, CookieOK, TabInv, DocOK, Good, Held, PairOf, AskInv, WaitOK,
       AskOK, OneUpload, UploadCall
  <2> QED
    BY <2>2, <2>3
<1> QED
  BY <1>1, <1>2, <1>3, <1>4 DEF Next

LEMMA SpecIInv == Spec => []IInv
BY InitIInv, IInvPreserved, PTL DEF Spec

\* A page's name and token are a pair that one login was answered, as long as
\* every name that was written to the cookie is read back from it.
THEOREM PairsBelongTogether == Spec => []PagePair
<1>1. IInv => PagePair
  BY DEF IInv, BrowserInv, CookieInv, CookieOK, TabInv, DocOK, Good, PagePair
<1> QED
  BY <1>1, SpecIInv, PTL

\* As long as that holds, the pages never send a visitor to each other for ever.
THEOREM NoLoop == Spec => []NoRedirectLoop
<1>1. IInv => NoRedirectLoop
  BY DEF IInv, BrowserInv, TabInv, DocOK, NoRedirectLoop
<1> QED
  BY <1>1, SpecIInv, PTL

\* Only who knew the password of the row gets past VerifyToken, also from a page
\* that works with the name of one user and the token of another.
THEOREM OnlyIssuedTokens == Spec => []AcceptedWasIssued
<1>1. IInv => AcceptedWasIssued
  BY DEF IInv, ServerInv, CallInv, CallOK, Issued, AcceptedWasIssued
<1> QED
  BY <1>1, SpecIInv, PTL

\* A registration that was confirmed has its row, unless two of its name were at
\* work together or a statement failed.
THEOREM RegistrationStands == Spec => []RegisterStands
<1>1. IInv => RegisterStands
  BY DEF IInv, ServerInv, RegisterInv
<1> QED
  BY <1>1, SpecIInv, PTL

\* The types, a complete application, and sessions that other logins leave alone.
THEOREM ClientConsistent == Spec => []Consistent
<1>1. IInv => TypeOK
  <2> SUFFICES ASSUME IInv PROVE TypeOK
    OBVIOUS
  <2>1. ServerTypeOK
    BY DEF IInv, Types, ServerTypes, CallRec, CallPcs, ServerTypeOK
  <2>2. \A t \in Tabs : tab[t] \in Document /\ WaitOK(t) /\ tab[t].up \in Upload
    BY DEF IInv, Types, BrowserTypes, BrowserInv, AskInv, Document
  <2>3. cookie \in Cookies /\ asker \in [Calls -> Tabs \cup {None}]
    BY DEF IInv, Types, BrowserTypes
  <2> QED
    BY <2>1, <2>2, <2>3 DEF TypeOK, Document, Upload, WaitOK
<1>2. IInv => AppComplete
  BY DEF IInv, BrowserInv, TabInv, DocOK, AppComplete, Started
<1>3. IInv => SessionKept
  BY DEF IInv, ServerInv, SessionInv
<1> QED
  BY <1>1, <1>2, <1>3, SpecIInv, PTL DEF Consistent

\* A file is sent only if it is small enough and the store has asked for it.
THEOREM UploadsWereAsked == Spec => []UploadAfterCheck
<1>1. IInv => UploadAfterCheck
  BY DEF IInv, ServerInv, CallInv, CallOK, UploadAfterCheck
<1> QED
  BY <1>1, SpecIInv, PTL

=============================================================================
