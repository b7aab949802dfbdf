------------------------------- MODULE FileStore -------------------------------
(***************************************************************************)
(* The file metadata of the picture store: who lists which file, how many  *)
(* listings refer to a stored blob, and what is shared.  It is kept in     *)
(* five MySQL tables, a Redis sorted set and FastDFS, and changed by the   *)
(* handlers of dbserver/dbapi on behalf of the coroutines of api/.         *)
(*                                                                         *)
(* Nothing here is a transaction.  A synchronous handler runs on the event *)
(* loop of the database server, one at a time; its SELECTs run at once but *)
(* its writes are handed to eight worker connections (Execute), which      *)
(* apply them later and in no particular order: the bag pending.  The      *)
(* instant-upload and upload handlers are chains of asynchronous           *)
(* statements, any number of them in progress at a time.                   *)
(*                                                                         *)
(* Nobody serialises the requests: two of them may work on one file, one   *)
(* counter or one listing, and a request may find the writes of an earlier *)
(* one, answered long ago, still pending.  A statement that MySQL refuses  *)
(* and a Redis call that throws are faults; nothing is repeated or undone. *)
(*                                                                         *)
(* A file stands for an md5 and the name it is listed under.  The model    *)
(* takes (user, md5, file_name) and the other natural keys of the tables   *)
(* for unique, so that a second INSERT of a row fails; the schema is not   *)
(* in the repository.  The pv counters are left out.                       *)
(***************************************************************************)
EXTENDS Integers, FiniteSets, Bags

CONSTANTS Users, Files,
          Blobs,        \* the ids FastDFS may give a stored file
          Links,        \* the random urlmd5 of pictures that are shared
          Calls,        \* coroutines of the web server in progress at a time
          None,         \* no user, file or blob
          ShareKey,     \* the user_file_count row that counts the shared files
          Kinds,        \* the requests clients send
          MaxCount,     \* bound: the counters at which a client still adds
          MaxRequests,  \* bound: the requests clients send, and the faults
          MaxFaults     \* bound: the refused statements and Redis exceptions

KindNames == {"store", "delete", "share", "cancel", "save", "pv", "count",
              "picture", "unpicture"}

ASSUME StoreAssumption ==
    /\ None \notin Users \cup Files \cup Blobs \cup Links \cup {ShareKey}
    /\ \A u \in Users : <<u, "pictures">> \notin Users \cup {ShareKey, None}
    /\ ShareKey \notin Users
    /\ Files \cap Links = {}
    /\ Kinds \subseteq KindNames
    /\ MaxCount \in Nat /\ MaxRequests \in Nat /\ MaxFaults \in Nat

VARIABLES file_info,        \* [count, file_id] of an md5; file_id None: no row
          user_file_list,   \* of a user and a file: "none", "private", "shared"
          user_file_count,  \* of a user, of his pictures and of ShareKey, or NoRow
          share_file_list,  \* the pairs of a user and a file
          share_picture_list,  \* whose picture a link shows, or None
          zset,             \* FILE_PUBLIC_ZSET: the files that are public
          blobs,            \* what FastDFS stores
          pending,          \* the writes the worker connections still have to do
          call,             \* the requests in progress
          asked, faults,    \* how many requests and faults there were
          kept,             \* history: files whose DELETE FROM file_info was refused
          upset             \* history: the numbers that a race or a fault has spoiled

tables == <<file_info, user_file_list, user_file_count, share_file_list,
            share_picture_list>>
history == <<kept, upset>>
vars == <<tables, zset, blobs, pending, call, asked, faults, history>>

NoRow == -1
NoInfo == [count |-> 0, file_id |-> None]
Idle == [pc |-> "idle", user |-> None, file |-> None, n |-> 0, row |-> "none",
         blob |-> None]

\* The program counters of a synchronous handler that has the event loop.
OnLoop == {"unshare", "uncount", "unref", "share_count", "save_ref", "save_count",
           "picture_count", "unpicture_count"}
Chain == {"instant", "instant_exists", "instant_ref", "insert_info",
          "insert_row", "read_count", "write_count"}
Pcs == {"idle", "fdfs_upload", "fdfs_delete"} \cup Chain \cup OnLoop
          \cup (KindNames \ {"store"})

\* The row of user_file_count that counts a user's pictures.
PictureKey(u) == <<u, "pictures">>
Counters == Users \cup {ShareKey} \cup {PictureKey(u) : u \in Users}

\* A statement is about a file, or about a link.  It writes n; was is what the
\* handler that sent it took the row to hold.
Stmt(op, u, f, was, n) == [op |-> op, user |-> u, file |-> f, was |-> was, n |-> n]

Init ==
    /\ file_info = [f \in Files |-> NoInfo]
    /\ user_file_list = [p \in Users \X Files |-> "none"]
    /\ user_file_count = [k \in Counters |-> NoRow]
    /\ share_picture_list = [l \in Links |-> None]
    /\ share_file_list = {} /\ zset = {} /\ blobs = {}
    /\ pending = EmptyBag
    /\ call = [c \in Calls |-> Idle]
    /\ asked = 0 /\ faults = 0 /\ kept = {} /\ upset = {}

-----------------------------------------------------------------------------
(* What the statements do.                                                 *)

\* UPDATE file_info SET count / DELETE FROM file_info: nothing without a row.
SetRef(s) ==
    /\ s.op = "set_ref"
    /\ file_info' = IF file_info[s.file] = NoInfo THEN file_info
                    ELSE [file_info EXCEPT ![s.file].count = s.n]
    /\ UNCHANGED <<user_file_list, user_file_count, share_file_list, share_picture_list>>

DeleteInfo(s) ==
    /\ s.op = "del_info"
    /\ file_info' = [file_info EXCEPT ![s.file] = NoInfo]
    /\ UNCHANGED <<user_file_list, user_file_count, share_file_list, share_picture_list>>

\* INSERT INTO, DELETE FROM and UPDATE shared_status of user_file_list.
RowOps == {"ins_row", "del_row", "share_row", "unshare_row"}
ListRow(s) ==
    LET row == user_file_list[<<s.user, s.file>>]
    IN  /\ user_file_list' = [user_file_list EXCEPT ![<<s.user, s.file>>] =
              CASE s.op = "ins_row" -> IF row = "none" THEN "private" ELSE row
                [] s.op = "del_row" -> "none"
                [] s.op = "share_row" -> IF row = "none" THEN row ELSE "shared"
                [] s.op = "unshare_row" -> IF row = "none" THEN row ELSE "private"]
        /\ UNCHANGED <<file_info, user_file_count, share_file_list, share_picture_list>>

\* INSERT INTO user_file_count needs the row to be absent, UPDATE to be there.
Count(s) ==
    /\ user_file_count' = IF (user_file_count[s.user] = NoRow) = (s.op = "ins_count")
                          THEN [user_file_count EXCEPT ![s.user] = s.n]
                          ELSE user_file_count
    /\ UNCHANGED <<file_info, user_file_list, share_file_list, share_picture_list>>

ShareList(s) ==
    /\ share_file_list' = IF s.op = "ins_share"
                          THEN share_file_list \cup {<<s.user, s.file>>}
                          ELSE share_file_list \ {<<s.user, s.file>>}
    /\ UNCHANGED <<file_info, user_file_list, user_file_count, share_picture_list>>

\* INSERT INTO and DELETE FROM share_picture_list.
PictureList(s) ==
    /\ share_picture_list' = [share_picture_list EXCEPT
                                ![s.file] = IF s.op = "ins_picture" THEN s.user ELSE None]
    /\ UNCHANGED <<file_info, user_file_list, user_file_count, share_file_list>>

Apply(s) ==
    \/ SetRef(s) \/ DeleteInfo(s)
    \/ s.op \in RowOps /\ ListRow(s)
    \/ s.op \in {"ins_count", "set_count"} /\ Count(s)
    \/ s.op \in {"ins_share", "del_share"} /\ ShareList(s)
    \/ s.op \in {"ins_picture", "del_picture"} /\ PictureList(s)

Fault == faults < MaxFaults /\ asked + faults < MaxRequests /\ faults' = faults + 1
Spoil(S) == upset' = upset \cup S

\* What a statement finds in its row is what its handler took for granted.
\* INSERT of a zero count is for the row to exist, whoever inserts it.
Meets(s) ==
    CASE s.op \in {"set_ref", "del_info"} -> file_info[s.file].count = s.was
      [] s.op \in RowOps -> user_file_list[<<s.user, s.file>>] = s.was
      [] s.op \in {"ins_count", "set_count"} ->
            user_file_count[s.user] = s.was \/ (s.op = "ins_count" /\ s.n = 0)
      [] s.op = "ins_share" -> <<s.user, s.file>> \notin share_file_list
      [] s.op = "del_share" -> <<s.user, s.file>> \in share_file_list
      [] s.op = "ins_picture" -> share_picture_list[s.file] = None
      [] s.op = "del_picture" -> share_picture_list[s.file] = s.user

\* The numbers that are wrong when a statement does not do what it should.
About(s) ==
    CASE s.op \in {"set_ref", "del_info"} -> {s.file}
      [] s.op \in {"ins_row", "del_row"} -> {s.user, s.file, ShareKey}
      [] s.op \in {"ins_count", "set_count"} -> {s.user}
      [] s.op \in {"ins_picture", "del_picture"} -> {PictureKey(s.user)}
      [] OTHER -> {ShareKey}

\* A worker runs a statement, and MySQL may refuse it.  Nobody looks at the outcome.
Run(s) ==
    \/ /\ Apply(s)
       /\ Spoil(IF Meets(s) THEN {} ELSE About(s))
       /\ UNCHANGED <<faults, kept>>
    \/ /\ Fault
       /\ Spoil(About(s))
       /\ kept' = IF s.op = "del_info" THEN kept \cup {s.file} ELSE kept
       /\ UNCHANGED tables

\* Execute hands statements to the workers; one of them runs one later on.
Execute(S) == pending' = pending (+) SetToBag(S)

RunPending ==
    \E s \in BagToSet(pending) :
        /\ Run(s)
        /\ pending' = pending (-) SetToBag({s})
        /\ UNCHANGED <<zset, blobs, call>>

\* A SELECT gives r: what there is, or, when MySQL refuses it, no row.
Select(found, absent, r) ==
    \/ r = found /\ UNCHANGED faults
    \/ r # found /\ r = absent /\ Fault

\* Redis does as it is told, or throws.
Redis(Z) ==
    \/ zset' = Z /\ UNCHANGED faults
    \/ UNCHANGED zset /\ Fault

\* Mutant: a first INSERT leaves the new row at zero.
AddOneFromZero(u, cnt) == IF cnt = NoRow THEN Stmt("ins_count", u, None, cnt, 0)
                                         ELSE Stmt("set_count", u, None, cnt, cnt + 1)

\* The INSERT or UPDATE that follows SELECT count when it returned cnt.
AddOne(u, cnt) == IF cnt = NoRow THEN Stmt("ins_count", u, None, cnt, 1)
                                 ELSE Stmt("set_count", u, None, cnt, cnt + 1)

\* Mutant: a count of 0 is taken down, too.
LessOneUnguarded(u, cnt) == {Stmt("set_count", u, None, cnt, cnt - 1)}

\* The UPDATE that follows a SELECT that returned cnt, unless cnt is 0.
LessOne(u, cnt) == IF cnt > 0 THEN {Stmt("set_count", u, None, cnt, cnt - 1)} ELSE {}

\* Mutant: the last but one reference deletes the file, too.
LastRefOffByOne(info) == info # NoInfo /\ info.count <= 2

LastRef(info) == info # NoInfo /\ info.count <= 1

Goto(c, p) == call' = [call EXCEPT ![c].pc = p]
Finish(c) == call' = [call EXCEPT ![c] = Idle]

-----------------------------------------------------------------------------
(* Requests.                                                               *)

Active == {call[c] : c \in Calls} \ {Idle}

\* The links no row has, nor a request or a write that waits: they bound the pictures.
FreeLinks == {l \in Links : /\ share_picture_list[l] = None
                            /\ \A x \in Active \cup BagToSet(pending) : x.file # l}

\* A client stores any file, deletes, shares and unshares one it lists, and
\* saves one that somebody lists (the page of "shared" files shows them all).
\* It makes a link to a picture it lists, and takes back one it has or had.
MayRequest(k, u, f) ==
    LET row == user_file_list[<<u, f>>]
    IN  CASE k = "store"  -> /\ file_info[f].count < MaxCount
                             /\ user_file_count[u] < MaxCount
          [] k = "delete" -> row # "none"
          [] k = "share"  -> row # "none" /\ user_file_count[ShareKey] < MaxCount
          [] k = "cancel" -> row = "shared"
          [] k = "save"   -> /\ \E v \in Users : user_file_list[<<v, f>>] # "none"
                             /\ file_info[f].count < MaxCount
                             /\ user_file_count[u] < MaxCount
          [] k = "pv"     -> \E v \in Users : <<v, f>> \in share_file_list
          [] k = "count"  -> user_file_count[ShareKey] = NoRow
          [] k = "picture" -> /\ row # "none"
                              /\ Cardinality({c \in Calls : call[c].pc = "picture"})
                                    < Cardinality(FreeLinks)
          [] k = "unpicture" -> share_picture_list[f] \in {u, None}

Begin(c) ==
    /\ call[c] = Idle
    /\ asked + faults < MaxRequests /\ asked' = asked + 1
    /\ \E k \in Kinds, u \in Users, f \in Files \cup Links :
          /\ f \in Links <=> k = "unpicture"
          /\ MayRequest(k, u, f)
          /\ call' = [call EXCEPT ![c] =
                         [Idle EXCEPT !.pc = IF k = "store" THEN "instant" ELSE k,
                                      !.user = u, !.file = f]]
    /\ UNCHANGED <<tables, zset, blobs, pending, faults, history>>

\* At the program counter p; a handler starts only when the event loop is free.
At(c, p) == call[c].pc = p
Start(c, p) == At(c, p) /\ \A d \in Calls : call[d].pc \notin OnLoop

-----------------------------------------------------------------------------
(* InstantUploadCall, and the upload a client falls back to.  Each step is *)
(* one statement of the chain, at the moment a worker runs it.             *)

InstantCheck(c) ==
    /\ At(c, "instant")
    /\ LET row == file_info[call[c].file]
       IN  \E info \in {row, NoInfo} :
              /\ Select(row, NoInfo, info)
              /\ call' = [call EXCEPT ![c].n = info.count,
                                      ![c].pc = IF info = NoInfo THEN "fdfs_upload"
                                                ELSE "instant_exists"]
    /\ UNCHANGED <<tables, zset, blobs, pending, history>>

InstantExists(c) ==
    /\ At(c, "instant_exists")
    /\ LET row == user_file_list[<<call[c].user, call[c].file>>]
       IN  \E r \in {row, "none"} :
              /\ Select(row, "none", r)
              /\ IF r # "none" THEN Finish(c) ELSE Goto(c, "instant_ref")
    /\ UNCHANGED <<tables, zset, blobs, pending, history>>

InstantRef(c) ==
    /\ At(c, "instant_ref")
    /\ Run(Stmt("set_ref", None, call[c].file, call[c].n, call[c].n + 1))
    /\ Goto(c, "insert_row")
    /\ UNCHANGED <<zset, blobs, pending>>

FdfsUpload(c) ==
    /\ At(c, "fdfs_upload")
    /\ \E b \in Blobs \ blobs :
          /\ \A f \in Files : file_info[f].file_id # b
          /\ \A d \in Calls : call[d].blob # b
          /\ blobs' = blobs \cup {b}
          /\ call' = [call EXCEPT ![c].blob = b, ![c].pc = "insert_info"]
    /\ UNCHANGED <<tables, zset, pending, faults, history>>

\* The client never uploads, or FastDFS refuses the file twice.
UploadFails(c) ==
    /\ At(c, "fdfs_upload")
    /\ Finish(c)
    /\ UNCHANGED <<tables, zset, blobs, pending, faults, history>>

\* The INSERT fails when another upload has inserted the row; the chain goes on.
InsertInfo(c) ==
    /\ At(c, "insert_info")
    /\ LET f == call[c].file
       IN  \/ /\ file_info[f] = NoInfo
              /\ file_info' = [file_info EXCEPT ![f] = [count |-> 1, file_id |-> call[c].blob]]
              /\ UNCHANGED <<upset, faults>>
           \/ /\ file_info[f] # NoInfo
              /\ Spoil({f})
              /\ UNCHANGED <<file_info, faults>>
           \/ /\ Fault
              /\ Spoil({f})
              /\ UNCHANGED file_info
    /\ Goto(c, "insert_row")
    /\ UNCHANGED <<user_file_list, user_file_count, share_file_list, share_picture_list,
                   zset, blobs, pending, kept>>

InsertRow(c) ==
    /\ At(c, "insert_row")
    /\ Run(Stmt("ins_row", call[c].user, call[c].file, "none", 0))
    /\ Goto(c, "read_count")
    /\ UNCHANGED <<zset, blobs, pending>>

ReadCount(c) ==
    /\ At(c, "read_count")
    /\ LET row == user_file_count[call[c].user]
       IN  \E cnt \in {row, NoRow} :
              /\ Select(row, NoRow, cnt)
              /\ call' = [call EXCEPT ![c].n = cnt, ![c].pc = "write_count"]
    /\ UNCHANGED <<tables, zset, blobs, pending, history>>

WriteCount(c) ==
    /\ At(c, "write_count")
    /\ Run(AddOne(call[c].user, call[c].n))
    /\ Finish(c)
    /\ UNCHANGED <<zset, blobs, pending>>

-----------------------------------------------------------------------------
(* SyncDeleteFile.  A step is a SELECT and the Executes up to the next one. *)

\* A file in the Redis set counts as shared, whoever shares it; then the
\* handler does not look at the row.
DeleteCheck(c) ==
    /\ Start(c, "delete")
    /\ LET u == call[c].user  f == call[c].file  row == user_file_list[<<u, f>>]
       IN  \/ /\ f \in zset \/ row = "shared"
              /\ Execute({Stmt("del_share", u, f, 0, 0)})
              /\ call' = [call EXCEPT ![c].pc = "unshare", ![c].row = "shared",
                                      ![c].n = IF f \in zset THEN 1 ELSE 0]
              /\ UNCHANGED faults
           \/ /\ f \notin zset /\ row = "private"
              /\ call' = [call EXCEPT ![c].pc = "uncount", ![c].row = "private"]
              /\ UNCHANGED <<pending, faults>>
           \/ /\ f \notin zset /\ row = "none"
              /\ Finish(c)
              /\ UNCHANGED <<pending, faults>>
           \/ /\ Fault
              /\ Finish(c)
              /\ UNCHANGED pending
    /\ UNCHANGED <<tables, zset, blobs, history>>

\* The shared-file count after a deletion, written even when it was 0.
ShareLess(cnt) == Stmt("set_count", ShareKey, None, cnt, IF cnt > 0 THEN cnt - 1 ELSE 0)

\* Redis is told only of a file it had (n is 1).  Its exception ends the handler.
DeleteUnshare(c) ==
    /\ At(c, "unshare")
    /\ LET row == user_file_count[ShareKey]  f == call[c].file
       IN  \/ \E cnt \in {row, NoRow} :
              /\ Select(row, NoRow, cnt)
              /\ Spoil(IF cnt > 0 THEN {} ELSE {ShareKey})
              /\ \/ cnt = NoRow /\ Finish(c) /\ UNCHANGED <<zset, pending>>
                 \/ /\ cnt # NoRow
                    /\ Execute({ShareLess(cnt)})
                    /\ zset' = IF call[c].n = 1 THEN zset \ {f} ELSE zset
                    /\ Goto(c, "uncount")
           \/ /\ row # NoRow /\ call[c].n = 1 /\ Fault
              /\ Spoil({ShareKey})
              /\ Execute({ShareLess(row)})
              /\ Finish(c)
              /\ zset' \in {zset, zset \ {f}}
    /\ UNCHANGED <<tables, blobs, kept>>

DeleteUncount(c) ==
    /\ At(c, "uncount")
    /\ LET u == call[c].user  row == user_file_count[u]
       IN  \E cnt \in {row, NoRow} :
              /\ Select(row, NoRow, cnt)
              /\ Spoil(IF cnt > 0 THEN {} ELSE {u, ShareKey})
              /\ \/ cnt = NoRow /\ Finish(c) /\ UNCHANGED pending
                 \/ /\ cnt # NoRow
                    /\ Execute(LessOne(u, cnt) \cup
                               {Stmt("del_row", u, call[c].file, call[c].row, 0)})
                    /\ Goto(c, "unref")
    /\ UNCHANGED <<tables, zset, blobs, kept>>

\* Mutant: the reply carries the file_id whether or not the row is deleted.
DeleteUnrefTellsAll(c) ==
    /\ At(c, "unref")
    /\ LET f == call[c].file  info == file_info[f]
       IN  /\ info # NoInfo
           /\ Execute({IF LastRef(info) THEN Stmt("del_info", None, f, info.count, 0)
                       ELSE Stmt("set_ref", None, f, info.count, info.count - 1)})
           /\ call' = [call EXCEPT ![c].blob = info.file_id, ![c].pc = "fdfs_delete"]
    /\ UNCHANGED <<tables, zset, blobs, faults, history>>

\* The last reference: code 2 and the file_id tell the web server to delete the blob.
DeleteUnref(c) ==
    /\ At(c, "unref")
    /\ LET f == call[c].file  row == file_info[f]
       IN  \E info \in {row, NoInfo} :
              /\ Select(row, NoInfo, info)
              /\ Spoil(IF info # NoInfo THEN {} ELSE {f})
              /\ \/ info = NoInfo /\ Finish(c) /\ UNCHANGED pending
                 \/ /\ info # NoInfo /\ ~LastRef(info)
                    /\ Execute({Stmt("set_ref", None, f, info.count, info.count - 1)})
                    /\ Finish(c)
                 \/ /\ LastRef(info)
                    /\ Execute({Stmt("del_info", None, f, info.count, 0)})
                    /\ call' = [call EXCEPT ![c].blob = info.file_id, ![c].pc = "fdfs_delete"]
    /\ UNCHANGED <<tables, zset, blobs, kept>>

\* FastDFS may fail to delete; the blob then stays behind.
FdfsDelete(c) ==
    /\ At(c, "fdfs_delete")
    /\ blobs' \in {blobs, blobs \ {call[c].blob}}
    /\ Finish(c)
    /\ UNCHANGED <<tables, zset, pending, faults, history>>

-----------------------------------------------------------------------------
(* SyncShareFile, SyncCancel, SyncSave, SyncPv and SyncGetShareFilesCount. *)

\* A DELETE FROM share_file_list that a handler takes for done still waits.
Withdrawn(f) == \E s \in BagToSet(pending) : s.op = "del_share" /\ s.file = f

\* What MySQL lists goes back into the Redis set.
ShareCheck(c) ==
    /\ Start(c, "share")
    /\ LET u == call[c].user  f == call[c].file
           listed == \E v \in Users : <<v, f>> \in share_file_list
       IN  \/ /\ f \in zset \/ listed
              /\ Redis(zset \cup {f})
              /\ Spoil(IF f \notin zset /\ Withdrawn(f) THEN {ShareKey} ELSE {})
              /\ Finish(c)
              /\ UNCHANGED pending
           \/ /\ f \notin zset
              /\ \E found \in {listed, FALSE} :
                    Select(listed, FALSE, found) /\ ~found
              /\ Execute({Stmt("share_row", u, f, "private", 0), Stmt("ins_share", u, f, 0, 0)})
              /\ Goto(c, "share_count")
              /\ UNCHANGED <<zset, upset>>
    /\ UNCHANGED <<tables, blobs, kept>>

\* The writes are on their way when Redis throws.
ShareCount(c) ==
    /\ At(c, "share_count")
    /\ LET row == user_file_count[ShareKey]  f == call[c].file
       IN  \/ \E cnt \in {row, NoRow} :
              /\ Select(row, NoRow, cnt)
              /\ Execute({AddOne(ShareKey, cnt)})
              /\ zset' = zset \cup {f}
              /\ UNCHANGED upset
           \/ /\ Fault
              /\ Execute({AddOne(ShareKey, row)})
              /\ Spoil({ShareKey})
              /\ zset' \in {zset, zset \cup {f}}
    /\ Finish(c)
    /\ UNCHANGED <<tables, blobs, kept>>

\* Mutant: the row of share_file_list stays.
CancelKeepsRow(c) ==
    /\ Start(c, "cancel")
    /\ LET u == call[c].user  f == call[c].file  cnt == user_file_count[ShareKey]
       IN  /\ Execute({Stmt("unshare_row", u, f, "shared", 0)} \cup LessOne(ShareKey, cnt))
           /\ Spoil(IF cnt > 0 THEN {} ELSE {ShareKey})
           /\ zset' = zset \ {f}
    /\ Finish(c)
    /\ UNCHANGED <<tables, blobs, kept, faults>>

Cancel(c) ==
    /\ Start(c, "cancel")
    /\ LET u == call[c].user  f == call[c].file  row == user_file_count[ShareKey]
           unshare == Stmt("unshare_row", u, f, "shared", 0)
           others(cnt) == {Stmt("del_share", u, f, 0, 0)} \cup LessOne(ShareKey, cnt)
       IN  \/ \E cnt \in {row, NoRow} :
              /\ Select(row, NoRow, cnt)
              /\ Spoil(IF cnt > 0 THEN {} ELSE {ShareKey})
              /\ \/ cnt = NoRow /\ Execute({unshare}) /\ UNCHANGED zset
                 \/ cnt # NoRow /\ Execute({unshare} \cup others(cnt)) /\ zset' = zset \ {f}
           \/ /\ row # NoRow /\ Fault
              /\ Spoil({ShareKey})
              /\ Execute({unshare} \cup others(row))
              /\ zset' \in {zset, zset \ {f}}
    /\ Finish(c)
    /\ UNCHANGED <<tables, blobs, kept>>

SaveCheck(c) ==
    /\ Start(c, "save")
    /\ LET row == user_file_list[<<call[c].user, call[c].file>>]
       IN  \E r \in {row, "none"} :
              /\ Select(row, "none", r)
              /\ IF r # "none" THEN Finish(c) ELSE Goto(c, "save_ref")
    /\ UNCHANGED <<tables, zset, blobs, pending, history>>

SaveRef(c) ==
    /\ At(c, "save_ref")
    /\ LET f == call[c].file  row == file_info[f]
       IN  \E info \in {row, NoInfo} :
              /\ Select(row, NoInfo, info)
              /\ \/ info = NoInfo /\ Finish(c) /\ UNCHANGED pending
                 \/ /\ info # NoInfo
                    /\ Execute({Stmt("set_ref", None, f, info.count, info.count + 1),
                                Stmt("ins_row", call[c].user, f, "none", 0)})
                    /\ Goto(c, "save_count")
    /\ UNCHANGED <<tables, zset, blobs, history>>

SaveCount(c) ==
    /\ At(c, "save_count")
    /\ LET row == user_file_count[call[c].user]
       IN  \E cnt \in {row, NoRow} :
              Select(row, NoRow, cnt) /\ Execute({AddOne(call[c].user, cnt)})
    /\ Finish(c)
    /\ UNCHANGED <<tables, zset, blobs, history>>

\* A viewed file that MySQL lists as shared goes into the Redis set.
Pv(c) ==
    /\ Start(c, "pv")
    /\ LET f == call[c].file
           listed == \E v \in Users : <<v, f>> \in share_file_list
       IN  /\ Redis(IF listed THEN zset \cup {f} ELSE zset)
           /\ Spoil(IF listed /\ f \notin zset /\ Withdrawn(f) THEN {ShareKey} ELSE {})
    /\ Finish(c)
    /\ UNCHANGED <<tables, blobs, pending, kept>>

\* Whoever asks for the number first makes its row.
ShareTotal(c) ==
    /\ Start(c, "count")
    /\ LET row == user_file_count[ShareKey]
       IN  \E cnt \in {row, NoRow} :
              /\ Select(row, NoRow, cnt)
              /\ Execute(IF cnt = NoRow THEN {Stmt("ins_count", ShareKey, None, cnt, 0)} ELSE {})
    /\ Finish(c)
    /\ UNCHANGED <<tables, zset, blobs, history>>

-----------------------------------------------------------------------------
(* SyncSharePicture and SyncCancelShare.                                   *)

\* The link is random: nothing else has it.
SharePicture(c) ==
    /\ Start(c, "picture")
    /\ \E l \in FreeLinks : Execute({Stmt("ins_picture", call[c].user, l, 0, 0)})
    /\ Goto(c, "picture_count")
    /\ UNCHANGED <<tables, zset, blobs, faults, history>>

PictureCount(c) ==
    /\ At(c, "picture_count")
    /\ LET k == PictureKey(call[c].user)  row == user_file_count[k]
       IN  \E cnt \in {row, NoRow} :
              Select(row, NoRow, cnt) /\ Execute({AddOne(k, cnt)})
    /\ Finish(c)
    /\ UNCHANGED <<tables, zset, blobs, history>>

CancelPicture(c) ==
    /\ Start(c, "unpicture")
    /\ LET mine == share_picture_list[call[c].file] = call[c].user
       IN  \E found \in {mine, FALSE} :
              /\ Select(mine, FALSE, found)
              /\ IF found THEN Goto(c, "unpicture_count") ELSE Finish(c)
    /\ UNCHANGED <<tables, zset, blobs, pending, history>>

PictureUncount(c) ==
    /\ At(c, "unpicture_count")
    /\ LET u == call[c].user  k == PictureKey(u)  row == user_file_count[k]
       IN  \E cnt \in {row, NoRow} :
              /\ Select(row, NoRow, cnt)
              /\ Spoil(IF cnt > 0 THEN {} ELSE {k})
              /\ Execute({Stmt("del_picture", u, call[c].file, 0, 0)} \cup LessOne(k, cnt))
    /\ Finish(c)
    /\ UNCHANGED <<tables, zset, blobs, kept>>

-----------------------------------------------------------------------------
Handle(c) ==
    \/ InstantCheck(c) \/ InstantExists(c) \/ InstantRef(c)
    \/ FdfsUpload(c) \/ UploadFails(c) \/ InsertInfo(c)
    \/ InsertRow(c) \/ ReadCount(c) \/ WriteCount(c)
    \/ DeleteCheck(c) \/ DeleteUnshare(c) \/ DeleteUncount(c) \/ DeleteUnref(c)
    \/ FdfsDelete(c)
    \/ ShareCheck(c) \/ ShareCount(c) \/ Cancel(c)
    \/ SaveCheck(c) \/ SaveRef(c) \/ SaveCount(c) \/ Pv(c) \/ ShareTotal(c)
    \/ SharePicture(c) \/ PictureCount(c) \/ CancelPicture(c) \/ PictureUncount(c)

Next ==
    \/ RunPending /\ UNCHANGED asked
    \/ \E c \in Calls : Begin(c) \/ (Handle(c) /\ UNCHANGED asked)

Spec == Init /\ [][Next]_vars

-----------------------------------------------------------------------------
(* Properties.                                                             *)

Ops == RowOps \cup {"set_ref", "del_info", "ins_count", "set_count",
                    "ins_share", "del_share", "ins_picture", "del_picture"}
Rows == {"none", "private", "shared"}

StmtOK(s) ==
    /\ s.op \in Ops
    /\ s.user \in Counters \cup {None}
    /\ s.file \in Files \cup Links \cup {None}
    /\ IF s.op \in RowOps THEN s.was \in Rows ELSE s.was \in Nat \cup {NoRow}
    /\ s.n \in Nat

TypeOK ==
    /\ file_info \in [Files -> {NoInfo} \cup [count : Nat \ {0}, file_id : Blobs]]
    /\ user_file_list \in [Users \X Files -> Rows]
    /\ user_file_count \in [Counters -> Nat \cup {NoRow}]
    /\ share_picture_list \in [Links -> Users \cup {None}]
    /\ share_file_list \subseteq Users \X Files
    /\ zset \subseteq Files /\ blobs \subseteq Blobs
    /\ IsABag(pending) /\ \A s \in BagToSet(pending) : StmtOK(s)
    /\ call \in [Calls -> [pc : Pcs, user : Users \cup {None},
                           file : Files \cup Links \cup {None}, n : Nat \cup {NoRow},
                           row : Rows, blob : Blobs \cup {None}]]
    /\ asked \in 0..MaxRequests /\ faults \in 0..MaxFaults
    /\ kept \subseteq Files /\ upset \subseteq Files \cup Counters

Quiet(S) == \A x \in Active \cup BagToSet(pending) : {x.user, x.file} \cap S = {}
Listings(f) == {u \in Users : user_file_list[<<u, f>>] # "none"}
FilesOf(u) == {f \in Files : user_file_list[<<u, f>>] # "none"}
PicturesOf(u) == {l \in Links : share_picture_list[l] = u}
Counted(k) == IF user_file_count[k] = NoRow THEN 0 ELSE user_file_count[k]
DeleteWaits(f) == \E s \in BagToSet(pending) : s.op = "del_info" /\ s.file = f

\* The row of a file names a blob that is stored, whatever requests overlap:
\* the blob of a row goes only when the DELETE of the row is on its way.
\* (SyncDeleteFile, UploadFileCall)
RowHasBlob ==
    \A f \in Files : file_info[f] # NoInfo /\ ~DeleteWaits(f) /\ f \notin kept =>
        file_info[f].file_id \in blobs

\* A statement that overwrites what its handler did not read, and a handler that
\* is cut short, spoil the numbers; nothing else does, however requests on the
\* same file and user overlap.  Of a file that nobody is working on the reference
\* count is the number of listings, and of a user the two cached numbers are the
\* numbers of his files and of his picture links.
NumbersExact ==
    /\ \A f \in Files \ upset : Quiet({f}) =>
          /\ file_info[f].count = Cardinality(Listings(f))
          /\ file_info[f] = NoInfo <=> Listings(f) = {}
    /\ \A u \in Users \ upset : Quiet({u}) => Cardinality(FilesOf(u)) = Counted(u)
    /\ \A u \in Users : PictureKey(u) \notin upset /\ Quiet({u, PictureKey(u)}) =>
          Cardinality(PicturesOf(u)) = Counted(PictureKey(u))

\* The four records of what is shared agree when nothing is in progress, unless
\* such a race or fault has spoiled them: the flags of the rows, share_file_list,
\* the shared-file count and the Redis set.
ShareExact ==
    Active = {} /\ pending = EmptyBag /\ ShareKey \notin upset =>
        /\ share_file_list = {p \in Users \X Files : user_file_list[p] = "shared"}
        /\ zset = {f \in Files : \E u \in Users : <<u, f>> \in share_file_list}
        /\ user_file_count[ShareKey] \in
              {Cardinality(share_file_list)} \cup (IF share_file_list = {} THEN {NoRow} ELSE {})
=============================================================================
