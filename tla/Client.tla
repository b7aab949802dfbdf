-------------------------------- MODULE Client --------------------------------
(***************************************************************************)
(* The front end in the tabs of one browser, with the server of Accounts:  *)
(* how a page is loaded, which page the router shows, how login, register  *)
(* and logout use the two cookies, the requests of the files page and of   *)
(* its upload dialog, and what becomes of an answer that arrives after the *)
(* user has gone to another page.                                          *)
(*                                                                         *)
(* A turn of the event loop is one step, and the tabs take turns: a tab    *)
(* does not see the cookies between the two assignments of setCookie.  A   *)
(* document outlives its pages: an answer finds the handlers of the page   *)
(* that asked, unless the tab has been loaded again.                       *)
(*                                                                         *)
(* setCookie writes a name as it is and getCookie decodes the cookies and  *)
(* cuts them at each ";".  A name with a ";", a "%" or a blank at its end  *)
(* is not read as it was written, or makes getCookie throw, and what stood *)
(* behind its ";" may keep the browser from replacing the cookie later.    *)
(***************************************************************************)
EXTENDS Accounts

CONSTANTS Tabs,
          Plain,       \* the users whose names are read from the cookie as written
          Big,         \* the files of 10 MB and more
          MaxSent      \* bound: the requests the pages send by themselves or a user

VARIABLES cookie,   \* of all tabs: what getCookie returns for userName and token,
                    \* None for the empty string; odd: a name outside Plain was written
          tab,      \* the document of a tab
          asker,    \* the tab whose document waits for a call, None: no one does
          sent      \* the requests so far

browser == <<cookie, tab, asker, sent>>
vars == <<server, call, browser>>

Pages == {"login", "reg", "files", "loop", "blank"}
Cookies == [userName : Users \cup {None, Undef}, token : Tokens \cup {None, Undef}, odd : BOOLEAN]
Chunks == {"runtime", "vendor"}

ASSUME ClientAssumption ==
    /\ Big \subseteq Files /\ Plain \subseteq Users /\ MaxSent \in Nat
    /\ None \notin Calls \cup Tabs /\ None \notin Pages /\ Undef \notin Users

\* An upload: mounted while its page is shown, refused once its promise is.
NoUpload == [st |-> "none", file |-> None, mounted |-> FALSE, refused |-> FALSE,
             user |-> None, token |-> None]
\* A document: what is loaded, the page and what it has read when it was shown.
Blank == [installed |-> {"runtime"}, pushed |-> FALSE, page |-> None, user |-> None, token |-> None,
          wait |-> None, fetch |-> FALSE, up |-> NoUpload]

Init ==
    /\ InitServer /\ call = [c \in Calls |-> Free]
    /\ cookie = [userName |-> None, token |-> None, odd |-> FALSE]
    /\ tab = [t \in Tabs |-> Blank]
    /\ asker = [c \in Calls |-> None] /\ sent = 0

-----------------------------------------------------------------------------
(* Loading, and the router.                                                *)

\* The page a path ends at: PrivateRoute sends a visitor without both cookies
\* to /login, which sends one who has a token back.  Each of them reads the
\* cookies while it is drawn: when that throws (userName is Undef), React takes
\* the application off the page.
Landing(path, k) ==
    IF k.userName = Undef THEN "blank"
    ELSE IF path \in {"login", "reg"} /\ k.token = None THEN path
    ELSE IF k.token # None /\ k.userName # None THEN "files"
    ELSE IF k.token = None THEN "login" ELSE "loop"

\* A page is shown in place of another: the files page reads the cookies and
\* asks for its table.
Shown(d, path, k) ==
    LET p == Landing(path, k)
        Kept(v) == IF p = "files" THEN v ELSE None
    IN  [d EXCEPT !.page = p, !.wait = None, !.fetch = (p = "files"),
                  !.user = Kept(k.userName), !.token = Kept(k.token), !.up.mounted = FALSE]

\* What getCookie returns after setCookie({userName: u, token: tk}).  From a
\* name outside Plain on, and for all that are written after it, it may be any
\* name, the token of now or of before, none, or an exception.
Written(k, u, tk) ==
    IF k.odd \/ u \notin Plain \cup {None}
    THEN [userName : Users \cup {None, Undef}, token : {tk, k.token, None, Undef}, odd : {TRUE}]
    ELSE {[userName |-> u, token |-> tk, odd |-> FALSE]}

\* Mutant: the token is left in its cookie.
LoggedOutKeepsToken(k) == {[k EXCEPT !.userName = None]}

LoggedOut(k) == Written(k, None, None)

\* The logout page empties the cookies and goes to /login; the server is not told.
Visit(t, d, path) == \E k \in IF path = "logout" THEN LoggedOut(cookie) ELSE {cookie} :
    /\ cookie' = k
    /\ tab' = [tab EXCEPT ![t] = Shown(d, IF path = "logout" THEN "login" ELSE path, k)]

Paths == {"login", "reg", "files", "logout"}

\* The deferred entry module runs once its chunks are installed: [489, 1, 2].
RunDeferred(d) == d.pushed /\ Chunks \subseteq d.installed

Started(t) == tab[t].page # None

\* The scripts of the page come one after the other; each may fail to load.
LoadVendor(t) ==
    /\ ~Started(t) /\ ~tab[t].pushed /\ "vendor" \notin tab[t].installed
    /\ tab' = [tab EXCEPT ![t].installed = @ \cup {"vendor"}]
    /\ UNCHANGED <<server, call, cookie, asker, sent>>

\* The last script: push, and App shown at the path of the document.
LoadMain(t) ==
    /\ ~Started(t) /\ ~tab[t].pushed
    /\ LET d == [tab[t] EXCEPT !.pushed = TRUE] IN
       \/ RunDeferred(d) /\ \E path \in Paths : Visit(t, d, path)
       \/ ~RunDeferred(d) /\ tab' = [tab EXCEPT ![t] = d] /\ UNCHANGED cookie
    /\ UNCHANGED <<server, call, asker, sent>>

\* The user loads the page again: the old document is gone.
Reload(t) ==
    /\ tab[t].pushed
    /\ tab' = [tab EXCEPT ![t] = Blank]
    /\ asker' = [c \in Calls |-> IF asker[c] = t THEN None ELSE asker[c]]
    /\ UNCHANGED <<server, call, cookie, sent>>

\* A link of the application, or the browser's history.
Goto(t, path) ==
    /\ Started(t) /\ tab[t].page \notin {"loop", "blank"} /\ (path = tab[t].page => path = "files")
    /\ Visit(t, tab[t], path)
    /\ UNCHANGED <<server, call, asker, sent>>

-----------------------------------------------------------------------------
(* Requests.                                                               *)

Ask(c, t, rq) ==
    /\ call[c] = Free /\ sent < MaxSent /\ sent' = sent + 1
    /\ call' = [call EXCEPT ![c] = rq]
    /\ asker' = [asker EXCEPT ![c] = t]
    /\ Arrives(rq.api, rq.user)
    /\ UNCHANGED <<user_info, redis, made, granted, expired, missed, cookie>>

\* The button of the form is disabled while the page waits.
Submit(t, c, u, p) ==
    /\ tab[t].page \in {"login", "reg"} /\ tab[t].wait = None
    /\ Ask(c, t, New(tab[t].page, u, p, None))
    /\ tab' = [tab EXCEPT ![t].wait = c]

\* The request for the table, when the page is shown and when it is refreshed.
Fetch(t, c) ==
    /\ tab[t].page = "files" /\ tab[t].fetch
    /\ Ask(c, t, New("list", tab[t].user, tab[t].token, None))
    /\ tab' = [tab EXCEPT ![t].fetch = FALSE]

Refresh(t) ==
    /\ tab[t].page = "files" /\ ~tab[t].fetch
    /\ tab' = [tab EXCEPT ![t].fetch = TRUE]
    /\ UNCHANGED <<server, call, cookie, asker, sent>>

\* Mutant: a file that is too large is only complained about.
NotRefused(f) == FALSE

Refused(f) == f \in Big

\* beforeUpload: a large file is refused, and hashed all the same.  One upload
\* of a document at a time.
PickFile(t, f) ==
    /\ tab[t].page = "files" /\ tab[t].up.st = "none"
    /\ tab' = [tab EXCEPT ![t].up = [st |-> "hash", file |-> f, mounted |-> TRUE,
                  refused |-> Refused(f), user |-> tab[t].user, token |-> tab[t].token]]
    /\ UNCHANGED <<server, call, cookie, asker, sent>>

\* All chunks are read, and the store is asked for the md5.
Hashed(t, c) ==
    LET up == tab[t].up IN
    /\ up.st = "hash"
    /\ Ask(c, t, New("md5", up.user, up.token, up.file))
    /\ tab' = [tab EXCEPT ![t].up.st = "check"]

\* A chunk cannot be read: nobody handles the rejection.
HashFails(t) ==
    /\ tab[t].up.st = "hash"
    /\ tab' = [tab EXCEPT ![t].up = NoUpload]
    /\ UNCHANGED <<server, call, cookie, asker, sent>>

-----------------------------------------------------------------------------
(* Answers.                                                                *)

\* Mutant: an answer without a token leaves the cookie of the token alone.
LoginCookieKept(u, tk) == Written(cookie, u, IF tk = Undef THEN cookie.token ELSE tk)

\* setCookie: a token that is missing is written as "undefined".
LoginCookie(u, tk) == Written(cookie, u, tk)

Waiting(t, c) == tab[t].wait = c
NoMoreWait(t, c) == tab' = [tab EXCEPT ![t].wait = IF @ = c THEN None ELSE @]
Done(c) == call' = [call EXCEPT ![c] = Free] /\ asker' = [asker EXCEPT ![c] = None]
Then(c, rq) == call' = [call EXCEPT ![c] = rq] /\ UNCHANGED asker

\* The cookies are set whatever page is shown by now.
LoginAnswered(t, c) ==
    /\ call[c].api = "login" /\ Done(c)
    /\ \/ /\ call[c].code = 0
          /\ cookie' \in LoginCookie(call[c].user, call[c].token)
          /\ tab' = [tab EXCEPT ![t] = IF Waiting(t, c) THEN Shown(@, "files", cookie') ELSE @]
       \/ call[c].code # 0 /\ NoMoreWait(t, c) /\ UNCHANGED cookie

RegAnswered(t, c) ==
    /\ call[c].api = "reg" /\ Done(c)
    /\ NoMoreWait(t, c) /\ UNCHANGED cookie

\* The table is drawn, or "the login has expired" is shown: the page stays.
ListAnswered(t, c) ==
    /\ call[c].api = "list" /\ Done(c)
    /\ UNCHANGED <<cookie, tab>>

\* In the store already: refresh.  Not yet: upload, unless the promise has been
\* rejected or the component is gone.  Anything else: rejected.
Md5Answered(t, c) ==
    LET up == tab[t].up
        sends == call[c].code = 1 /\ ~up.refused /\ up.mounted
    IN  /\ call[c].api = "md5" /\ UNCHANGED cookie
        /\ tab' = [tab EXCEPT ![t].up = IF sends THEN [@ EXCEPT !.st = "send"] ELSE NoUpload]
        /\ IF sends THEN Then(c, New("upload", up.user, None, up.file))
           ELSE IF call[c].code = 0 THEN Then(c, New("list", up.user, up.token, None))
           ELSE Done(c)

UploadAnswered(t, c) ==
    LET up == tab[t].up IN
    /\ call[c].api = "upload" /\ UNCHANGED cookie
    /\ tab' = [tab EXCEPT ![t].up = NoUpload]
    /\ IF call[c].code = 0 THEN Then(c, New("list", up.user, up.token, None)) ELSE Done(c)

\* A response with status 200: the promise of the request is resolved.
Receive(c) ==
    /\ asker[c] # None /\ call[c].pc = "answered"
    /\ LET t == asker[c] IN
       \/ LoginAnswered(t, c) \/ RegAnswered(t, c) \/ ListAnswered(t, c)
       \/ Md5Answered(t, c) \/ UploadAnswered(t, c)
    /\ UNCHANGED <<server, sent>>

\* Mutant: no rejection handler, the form stays disabled.
FailUnhandled(c) ==
    /\ asker[c] # None
    /\ asker' = [asker EXCEPT ![c] = None]
    /\ tab' = [tab EXCEPT ![asker[c]].up = IF call[c].api \in {"md5", "upload"} THEN NoUpload ELSE @]
    /\ UNCHANGED <<server, call, cookie, sent>>

\* No response, or one of another status: the promise is rejected.  The server
\* goes on with the request all the same.
Fail(c) ==
    /\ asker[c] # None
    /\ asker' = [asker EXCEPT ![c] = None]
    /\ tab' = [tab EXCEPT ![asker[c]].wait = IF @ = c THEN None ELSE @,
                          ![asker[c]].up = IF call[c].api \in {"md5", "upload"} THEN NoUpload ELSE @]
    /\ UNCHANGED <<server, call, cookie, sent>>

\* A call nobody waits for any more, not even a coroutine that will go on.
Forget(c) ==
    /\ asker[c] = None /\ call[c].pc \in {"answered", "stuck"}
    /\ call' = [call EXCEPT ![c] = Free]
    /\ UNCHANGED <<server, browser>>

\* The browser gives a request up that is never answered.
GiveUp(c) == call[c].pc = "stuck" /\ Fail(c)

TabNext(t) ==
    \/ LoadVendor(t) \/ LoadMain(t) \/ Reload(t) \/ \E path \in Paths : Goto(t, path)
    \/ \E c \in Calls : \/ \E u \in Users, p \in Pwds : Submit(t, c, u, p)
                       \/ Fetch(t, c) \/ Hashed(t, c)
    \/ Refresh(t) \/ HashFails(t) \/ \E f \in Files : PickFile(t, f)

Next ==
    \/ \E t \in Tabs : TabNext(t)
    \/ \E c \in Calls : \/ Serve(c) /\ UNCHANGED browser
                       \/ Receive(c) \/ Fail(c) \/ Forget(c)
    \/ \E u \in Users : Expire(u) /\ UNCHANGED browser

\* The server serves what it has, and the browser's event loop takes the answers.
Spec ==
    /\ Init /\ [][Next]_vars
    /\ \A c \in Calls : /\ WF_vars(Serve(c) /\ UNCHANGED browser)
                       /\ WF_vars(Receive(c)) /\ WF_vars(GiveUp(c))

-----------------------------------------------------------------------------
TypeOK ==
    /\ ServerTypeOK
    /\ cookie \in Cookies
    /\ asker \in [Calls -> Tabs \cup {None}]
    /\ \A t \in Tabs :
         /\ tab[t].installed \subseteq Chunks /\ tab[t].page \in Pages \cup {None}
         /\ tab[t].wait \in Calls \cup {None} /\ tab[t].up.st \in {"none", "hash", "check", "send"}
         /\ tab[t].wait # None => asker[tab[t].wait] = t

\* A token that was answered to a login of that user, or none at all.
PairOf(u, tk) == tk = Undef \/ \E g \in granted : g.user = u /\ g.token = tk

\* The name and the token a page works with belong together, whichever tab
\* wrote the cookies last: a page never asks for one user's files with the
\* token of another.  Unless a name was written that is not read back: then
\* they may not.  (setCookie, getCookie, Login, MyFiles)
PagePair == ~cookie.odd =>
    /\ cookie.token # None => PairOf(cookie.userName, cookie.token)
    /\ \A t \in Tabs : tab[t].page = "files" => PairOf(tab[t].user, tab[t].token)

\* The guard of the pages, which wants both cookies, and the login page, which
\* goes away when there is a token, never send a visitor to each other for
\* ever, and no page is blank, unless a name was written that is not read back.
\* (PrivateRoute, Login, Logout, getCookie)
NoRedirectLoop == ~cookie.odd => \A t \in Tabs : tab[t].page \notin {"loop", "blank"}

\* Only a file below 10 MB is uploaded, and only after the store has said that
\* it has not got it.  (FileUploadModal)
UploadAfterCheck == \A c \in Calls : call[c].api = "upload" =>
    call[c].file \notin Big /\ <<call[c].user, call[c].file>> \in missed

\* The application runs only with the libraries it imports.  (the webpack runtime)
AppComplete == \A t \in Tabs : Started(t) => Chunks \subseteq tab[t].installed

\* A form that waits for its answer is enabled again, whether the request is
\* answered, fails, or is lost between the servers.  (Login, Reg, http.js)
LoadingEnds == \A t \in Tabs : (tab[t].wait # None) ~> (tab[t].wait = None)

\* What the other claims rest on: the types, a complete application, and sessions
\* that other logins leave alone.
Consistent == TypeOK /\ AppComplete /\ SessionKept
=============================================================================
