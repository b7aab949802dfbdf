---------------------------- MODULE FileStoreProof ----------------------------
(* What FileStore promises, for any users, files and calls: proofs.        *)
EXTENDS FileStore, FiniteSetTheorems, TLAPS

Waiting == BagToSet(pending)

-----------------------------------------------------------------------------
(* The bag of writes: the statements are idempotent, so that the arguments  *)
(* below ask only which of them are waiting, not how often.                 *)

LEMMA ExecuteAdds ==
    ASSUME NEW S, IsABag(pending), Execute(S)
    PROVE  IsABag(pending') /\ Waiting' = Waiting \cup S
  BY DEF Execute, IsABag, Waiting, BagToSet, SetToBag, (+)

LEMMA RunTakes ==
    ASSUME NEW s, IsABag(pending), pending' = pending (-) SetToBag({s})
    PROVE  IsABag(pending') /\ Waiting' \subseteq Waiting /\ Waiting \ {s} \subseteq Waiting'
  BY DEF IsABag, Waiting, BagToSet, SetToBag, (-)

-----------------------------------------------------------------------------
(* Types.  Each kind of statement has the table's key and nothing else.     *)

RefStmts == [op : {"set_ref"}, user : {None}, file : Files, was : Nat, n : Nat \ {0}]
              \cup [op : {"del_info"}, user : {None}, file : Files, was : Nat, n : {0}]
RowStmts == [op : RowOps, user : Users, file : Files, was : Rows, n : {0}]
ShareStmts == [op : {"ins_share", "del_share"}, user : Users, file : Files, was : {0}, n : {0}]
CountStmts == [op : {"ins_count", "set_count"}, user : Counters, file : {None},
               was : Nat \cup {NoRow}, n : Nat]
PictureStmts == [op : {"ins_picture", "del_picture"}, user : Users, file : Links,
                 was : {0}, n : {0}]
Stmts == RefStmts \cup RowStmts \cup ShareStmts \cup CountStmts \cup PictureStmts

PicturePcs == {"unpicture", "unpicture_count"}
CallRecords == [pc : Pcs, user : Users \cup {None}, file : Files \cup Links \cup {None},
                n : Nat \cup {NoRow}, row : Rows, blob : Blobs \cup {None}]

CallTypeInv(x) ==
    /\ x.pc = "idle" <=> x = Idle
    /\ x.pc # "idle" => /\ x.user \in Users
                        /\ x.file \in IF x.pc \in PicturePcs THEN Links ELSE Files
    /\ x.pc \in {"instant_exists", "instant_ref"} => x.n \in Nat \ {0}
    /\ x.pc \in {"insert_info", "fdfs_delete"} => x.blob \in Blobs

TablesInv ==
    /\ file_info \in [Files -> {NoInfo} \cup [count : Nat \ {0}, file_id : Blobs]]
    /\ user_file_list \in [Users \X Files -> Rows]
    /\ user_file_count \in [Counters -> Nat \cup {NoRow}]
    /\ share_picture_list \in [Links -> Users \cup {None}]
    /\ share_file_list \subseteq Users \X Files

CallsInv == call \in [Calls -> CallRecords] /\ \A c \in Calls : CallTypeInv(call[c])

TypeInv ==
    /\ TablesInv
    /\ zset \subseteq Files /\ blobs \subseteq Blobs
    /\ IsABag(pending) /\ Waiting \subseteq Stmts
    /\ CallsInv

LEMMA TypeInvInit == Init => TypeInv
  <1> SUFFICES ASSUME Init PROVE TypeInv
    OBVIOUS
  <1>1. TablesInv
    BY DEF Init, TablesInv, NoRow, NoInfo, Rows
  <1>2. IsABag(pending) /\ Waiting = {}
    BY DEF Init, Waiting, IsABag, BagToSet, EmptyBag, SetToBag
  <1>3. call \in [Calls -> CallRecords] /\ \A c \in Calls : call[c] = Idle
    BY DEF Init, CallRecords, Idle, Pcs, Rows
  <1>4. CallTypeInv(Idle)
    BY DEF CallTypeInv, Idle
  <1> QED
    BY <1>1, <1>2, <1>3, <1>4 DEF TypeInv, CallsInv, Init

\* A statement changes its table and keeps its type.
LEMMA ApplyKeepsTables ==
    ASSUME NEW s \in Stmts, TablesInv, Apply(s)
    PROVE  TablesInv'
  <1> USE StoreAssumption DEF TablesInv
  <1>1. CASE SetRef(s)
    <2>1. s.file \in Files /\ s.n \in Nat \ {0}
      BY <1>1 DEF SetRef, Stmts, RefStmts, RowStmts, ShareStmts, RowOps, CountStmts, PictureStmts
    <2> QED
      BY <1>1, <2>1 DEF SetRef, NoInfo
  <1>2. CASE DeleteInfo(s)
    BY <1>2 DEF DeleteInfo, NoInfo
  <1>3. CASE s.op \in RowOps /\ ListRow(s)
    BY <1>3 DEF ListRow, RowOps, Rows
  <1>4. CASE s.op \in {"ins_count", "set_count"} /\ Count(s)
    <2>1. s.n \in Nat
      BY DEF Stmts, RefStmts, RowStmts, ShareStmts, RowOps, CountStmts, PictureStmts
    <2> QED
      BY <1>4, <2>1 DEF Count
  <1>5. CASE s.op \in {"ins_share", "del_share"} /\ ShareList(s)
    <2>1. s.user \in Users /\ s.file \in Files
      BY <1>5 DEF Stmts, RefStmts, RowStmts, ShareStmts, RowOps, CountStmts, PictureStmts
    <2> QED
      BY <1>5, <2>1 DEF ShareList
  <1>6. CASE s.op \in {"ins_picture", "del_picture"} /\ PictureList(s)
    <2>1. s.user \in Users
      BY <1>6 DEF Stmts, RefStmts, RowStmts, ShareStmts, RowOps, CountStmts, PictureStmts
    <2> QED
      BY <1>6, <2>1 DEF PictureList
  <1> QED
    BY <1>1, <1>2, <1>3, <1>4, <1>5, <1>6 DEF Apply, RowOps

\* A call that moves on keeps its type, and the others theirs.
LEMMA GotoTyped ==
    ASSUME CallsInv, NEW c \in Calls, NEW p \in Pcs \ {"idle"}, Goto(c, p),
           call[c].pc # "idle",
           p \in PicturePcs <=> call[c].pc \in PicturePcs,
           p \in {"instant_exists", "instant_ref"} => call[c].n \in Nat \ {0},
           p \in {"insert_info", "fdfs_delete"} => call[c].blob \in Blobs
    PROVE  CallsInv'
  <1> DEFINE x == [call[c] EXCEPT !.pc = p]
  <1>1. call' = [call EXCEPT ![c] = x]
    BY DEF Goto, CallsInv
  <1>2. x \in CallRecords /\ CallTypeInv(x)
    BY DEF CallsInv, CallRecords, CallTypeInv, Idle
  <1> HIDE DEF x
  <1> QED
    BY <1>1, <1>2 DEF CallsInv

LEMMA FinishTyped ==
    ASSUME CallsInv, NEW c \in Calls, Finish(c)
    PROVE  CallsInv'
  <1>1. Idle \in CallRecords /\ CallTypeInv(Idle)
    BY DEF CallRecords, CallTypeInv, Idle, Pcs, Rows
  <1> QED
    BY <1>1 DEF CallsInv, Finish

LEMMA BeginTyped ==
    ASSUME TypeInv, NEW c \in Calls, Begin(c)
    PROVE  CallsInv'
  <1>1. PICK k \in Kinds, u \in Users, f \in Files \cup Links :
          /\ f \in Links <=> k = "unpicture"
          /\ MayRequest(k, u, f)
          /\ call' = [call EXCEPT ![c] =
                         [Idle EXCEPT !.pc = IF k = "store" THEN "instant" ELSE k,
                                      !.user = u, !.file = f]]
    BY DEF Begin
  <1> DEFINE x == [Idle EXCEPT !.pc = IF k = "store" THEN "instant" ELSE k,
                               !.user = u, !.file = f]
  <1>2. k \in KindNames
    BY StoreAssumption DEF StoreAssumption
  <1>3. x \in CallRecords
    BY <1>2 DEF CallRecords, Idle, Pcs, Chain, OnLoop, KindNames, Rows
  <1>4. CallTypeInv(x)
    <2>1. x.pc \in (KindNames \ {"store"}) \cup {"instant"} /\ (x.pc = "unpicture" <=> f \in Links)
      BY <1>1, <1>2, StoreAssumption DEF Idle, KindNames
    <2>2. x.user = u /\ x.file = f /\ x # Idle
      BY <2>1 DEF Idle, KindNames
    <2> HIDE DEF x
    <2> QED
      BY <2>1, <2>2 DEF CallTypeInv, PicturePcs, KindNames
  <1>5. call' = [call EXCEPT ![c] = x]
    BY <1>1
  <1> HIDE DEF x
  <1> QED
    BY <1>5, <1>3, <1>4 DEF TypeInv, CallsInv

\* The statements the handlers build are of their tables.
LEMMA StmtsTyped ==
    /\ \A f \in Files, m \in Nat, n \in Nat \ {0} : Stmt("set_ref", None, f, m, n) \in Stmts
    /\ \A f \in Files, m \in Nat : Stmt("del_info", None, f, m, 0) \in Stmts
    /\ \A op \in RowOps, u \in Users, f \in Files, r \in Rows : Stmt(op, u, f, r, 0) \in Stmts
    /\ \A op \in {"ins_share", "del_share"}, u \in Users, f \in Files :
          Stmt(op, u, f, 0, 0) \in Stmts
    /\ \A k \in Counters, m \in Nat \cup {NoRow} : AddOne(k, m) \in Stmts
    /\ \A k \in Counters, m \in Nat \cup {NoRow} : LessOne(k, m) \subseteq Stmts
    /\ \A m \in Nat : ShareLess(m) \in Stmts
    /\ Stmt("ins_count", ShareKey, None, NoRow, 0) \in Stmts
    /\ \A op \in {"ins_picture", "del_picture"}, u \in Users, l \in Links :
          Stmt(op, u, l, 0, 0) \in Stmts
    /\ \A u \in Users : u \in Counters /\ PictureKey(u) \in Counters
    /\ ShareKey \in Counters
  BY DEF Stmts, RefStmts, RowStmts, ShareStmts, RowOps, CountStmts, PictureStmts, Stmt,
         AddOne, LessOne, ShareLess, Counters, NoRow

LEMMA TypeInvStep == TypeInv /\ [Next]_vars => TypeInv'
  <1> SUFFICES ASSUME TypeInv, [Next]_vars PROVE TypeInv'
    OBVIOUS
  <1>u. /\ TablesInv /\ zset \subseteq Files /\ blobs \subseteq Blobs
        /\ IsABag(pending) /\ Waiting \subseteq Stmts /\ CallsInv
    BY DEF TypeInv
  <1>t. ASSUME UNCHANGED tables PROVE TablesInv'
    BY <1>t, <1>u DEF TablesInv, tables
  <1>e. ASSUME UNCHANGED tables, zset' \subseteq Files, blobs' \subseteq Blobs, CallsInv',
               NEW S \in SUBSET Stmts, Execute(S)
        PROVE  TypeInv'
    BY <1>e, <1>t, <1>u, ExecuteAdds DEF TypeInv
  <1>s. ASSUME zset' \subseteq Files, blobs' \subseteq Blobs, UNCHANGED pending,
               CallsInv', TablesInv'
        PROVE  TypeInv'
    BY <1>s, <1>u DEF TypeInv, Waiting
  <1>r. ASSUME NEW s \in Stmts, Run(s) PROVE TablesInv'
    BY <1>r, <1>t, <1>u, ApplyKeepsTables DEF Run
  <1>1. CASE UNCHANGED vars
    BY <1>1, <1>u, <1>t DEF vars, TypeInv, CallsInv, Waiting
  <1>2. CASE RunPending
    <2>1. PICK s \in BagToSet(pending) : /\ Run(s) /\ pending' = pending (-) SetToBag({s})
                                         /\ UNCHANGED <<zset, blobs, call>>
      BY <1>2 DEF RunPending
    <2>2. TablesInv'
      BY <2>1, <1>u, <1>r DEF Waiting
    <2>3. IsABag(pending') /\ Waiting' \subseteq Stmts
      BY <2>1, <1>u, RunTakes
    <2> QED
      BY <2>1, <2>2, <2>3, <1>u DEF TypeInv, CallsInv
  <1>3. ASSUME NEW c \in Calls, Begin(c) PROVE TypeInv'
    <2>1. UNCHANGED <<tables, zset, blobs, pending>>
      BY <1>3 DEF Begin
    <2> QED
      BY <2>1, <1>3, <1>u, <1>t, <1>s, BeginTyped
  <1>4. ASSUME NEW c \in Calls, Handle(c) PROVE TypeInv'
    <2> DEFINE u == call[c].user
               f == call[c].file
    <2>f. ASSUME Finish(c) PROVE CallsInv'
      BY <2>f, <1>u, FinishTyped
    <2>g. ASSUME NEW p \in Pcs \ ({"idle", "instant_exists", "instant_ref", "insert_info",
                                   "fdfs_delete"} \cup PicturePcs),
                 call[c].pc \notin PicturePcs \cup {"idle"}, Goto(c, p)
          PROVE  CallsInv'
      BY <2>g, <1>u, GotoTyped DEF PicturePcs
    <2>h. ASSUME call[c].pc \notin PicturePcs \cup {"idle"}
          PROVE  u \in Users /\ f \in Files
      BY <2>h, <1>u DEF CallsInv, CallTypeInv
    <2>i. ASSUME call[c].pc \in PicturePcs PROVE u \in Users /\ f \in Links
      BY <2>i, <1>u DEF CallsInv, CallTypeInv, PicturePcs
    <2>j. \A k \in Counters : user_file_count[k] \in Nat \cup {NoRow}
      BY <1>u DEF TablesInv
    <2>k. u \in Users => u \in Counters /\ PictureKey(u) \in Counters
      BY StmtsTyped
    <2>l. ShareKey \in Counters
      BY StmtsTyped
    <2>m. \A g \in Files : file_info[g] \in {NoInfo} \cup [count : Nat \ {0}, file_id : Blobs]
      BY <1>u DEF TablesInv
    <2>x. ASSUME NEW x \in CallRecords, call' = [call EXCEPT ![c] = x], x.user = u, x.file = f,
                 call[c].pc \notin PicturePcs \cup {"idle"}, x.pc \notin PicturePcs \cup {"idle"},
                 x.pc \in {"instant_exists", "instant_ref"} => x.n \in Nat \ {0},
                 x.pc \in {"insert_info", "fdfs_delete"} => x.blob \in Blobs
          PROVE  CallsInv'
      <3>1. x # Idle
        BY <2>x DEF Idle
      <3>2. CallTypeInv(x)
        BY <2>x, <2>h, <3>1 DEF CallTypeInv
      <3> QED
        BY <2>x, <3>2, <1>u DEF CallsInv
    <2>1. CASE InstantCheck(c)
      <3>1. PICK info \in {file_info[f], NoInfo} :
               call' = [call EXCEPT ![c].n = info.count,
                                    ![c].pc = IF info = NoInfo THEN "fdfs_upload"
                                              ELSE "instant_exists"]
        BY <2>1 DEF InstantCheck
      <3>2. call[c].pc = "instant"
        BY <2>1 DEF InstantCheck, At
      <3>3. info \in {NoInfo} \cup [count : Nat \ {0}, file_id : Blobs] /\ info.count \in Nat
        BY <3>1, <3>2, <2>h, <2>m DEF PicturePcs, NoInfo
      <3> DEFINE x == [call[c] EXCEPT !.n = info.count,
                              !.pc = IF info = NoInfo THEN "fdfs_upload"
                                     ELSE "instant_exists"]
      <3>4. call' = [call EXCEPT ![c] = x]
        BY <3>1, <1>u DEF CallsInv
      <3>5. x \in CallRecords /\ x.user = u /\ x.file = f
        BY <3>3, <1>u DEF CallsInv, CallRecords, Pcs, Chain
      <3>6. x.pc \in {"fdfs_upload", "instant_exists"}
            /\ (x.pc = "instant_exists" => x.n \in Nat \ {0})
        BY <3>3, <1>u DEF CallsInv, CallRecords
      <3>7. CallsInv'
        <4> HIDE DEF x
        <4> QED
          BY <3>2, <3>4, <3>5, <3>6, <2>x DEF PicturePcs
      <3> QED
        BY <3>7, <2>1, <1>t, <1>s, <1>u DEF InstantCheck
    <2>2. CASE InstantExists(c)
      <3>1. CallsInv'
        <4>1. CASE Finish(c)
          BY <4>1, <2>f
        <4>2. CASE Goto(c, "instant_ref")
          <5>1. call[c].n \in Nat \ {0}
            BY <2>2, <1>u DEF InstantExists, At, CallsInv, CallTypeInv
          <5> QED
            BY <4>2, <5>1, <2>2, <1>u, GotoTyped DEF InstantExists, At, Pcs, Chain, PicturePcs
        <4> QED
          BY <4>1, <4>2, <2>2 DEF InstantExists
      <3> QED
        BY <3>1, <2>2, <1>t, <1>s, <1>u DEF InstantExists
    <2>3. CASE InstantRef(c)
      <3> DEFINE s == Stmt("set_ref", None, f, call[c].n, call[c].n + 1)
      <3>1. call[c].n \in Nat /\ call[c].n + 1 \in Nat \ {0} /\ f \in Files
        BY <2>3, <1>u, <2>h DEF InstantRef, At, CallsInv, CallTypeInv, PicturePcs
      <3>2. s \in Stmts
        BY <3>1, StmtsTyped
      <3>3. TablesInv'
        BY <2>3, <3>2, <1>r DEF InstantRef
      <3> QED
        BY <3>3, <2>3, <2>g, <1>s, <1>u DEF InstantRef, At, Pcs, Chain, PicturePcs
    <2>4. CASE FdfsUpload(c)
      <3>1. PICK b \in Blobs \ blobs :
              /\ blobs' = blobs \cup {b}
              /\ call' = [call EXCEPT ![c].blob = b, ![c].pc = "insert_info"]
        BY <2>4 DEF FdfsUpload
      <3> DEFINE x == [call[c] EXCEPT !.blob = b, !.pc = "insert_info"]
      <3>2. call' = [call EXCEPT ![c] = x]
        BY <3>1, <1>u DEF CallsInv
      <3>3. /\ x \in CallRecords /\ x.user = u /\ x.file = f
            /\ x.pc = "insert_info" /\ x.blob \in Blobs
        BY <1>u DEF CallsInv, CallRecords, Pcs, Chain
      <3>4. CallsInv'
        <4> HIDE DEF x
        <4> QED
          BY <3>2, <3>3, <2>4, <2>x DEF FdfsUpload, At, PicturePcs
      <3> QED
        BY <3>1, <3>4, <2>4, <1>t, <1>s, <1>u DEF FdfsUpload
    <2>5. CASE UploadFails(c)
      BY <2>5, <2>f, <1>t, <1>s, <1>u DEF UploadFails
    <2>6. CASE InsertInfo(c)
      <3>1. call[c].blob \in Blobs /\ f \in Files
        BY <2>6, <1>u, <2>h DEF InsertInfo, At, CallsInv, CallTypeInv, PicturePcs
      <3>2. TablesInv'
        BY <3>1, <2>6, <1>u DEF InsertInfo, TablesInv
      <3> QED
        BY <3>2, <2>6, <2>g, <1>s, <1>u DEF InsertInfo, At, Pcs, Chain, PicturePcs
    <2>7. CASE InsertRow(c)
      <3>1. Stmt("ins_row", u, f, "none", 0) \in Stmts
        BY <2>7, <2>h, StmtsTyped DEF InsertRow, At, PicturePcs, RowOps, Rows
      <3>2. TablesInv'
        BY <2>7, <3>1, <1>r DEF InsertRow
      <3> QED
        BY <3>2, <2>7, <2>g, <1>s, <1>u DEF InsertRow, At, Pcs, Chain, PicturePcs
    <2>8. CASE ReadCount(c)
      <3>0. u \in Users /\ f \in Files /\ user_file_count[u] \in Nat \cup {NoRow}
        BY <2>8, <2>h, <2>j, <2>k DEF ReadCount, At, PicturePcs
      <3>1. PICK cnt \in {user_file_count[u], NoRow} :
               call' = [call EXCEPT ![c].n = cnt, ![c].pc = "write_count"]
        BY <2>8 DEF ReadCount
      <3> DEFINE x == [call[c] EXCEPT !.n = cnt, !.pc = "write_count"]
      <3>2. call' = [call EXCEPT ![c] = x]
        BY <3>1, <1>u DEF CallsInv
      <3>3. x \in CallRecords /\ x.user = u /\ x.file = f /\ x.pc = "write_count"
        BY <3>0, <3>1, <1>u DEF CallsInv, CallRecords, Pcs, Chain
      <3>4. CallsInv'
        <4> HIDE DEF x
        <4> QED
          BY <3>2, <3>3, <2>8, <2>x DEF ReadCount, At, PicturePcs
      <3> QED
        BY <3>4, <2>8, <1>t, <1>s, <1>u DEF ReadCount
    <2>9. CASE WriteCount(c)
      <3>1. u \in Users /\ call[c].n \in Nat \cup {NoRow}
        BY <2>9, <2>h, <1>u DEF WriteCount, At, PicturePcs, CallsInv, CallRecords
      <3>2. AddOne(u, call[c].n) \in Stmts
        BY <3>1, StmtsTyped
      <3>3. TablesInv'
        BY <2>9, <3>2, <1>r DEF WriteCount
      <3> QED
        BY <3>3, <2>9, <2>f, <1>s, <1>u DEF WriteCount
    <2>10. CASE DeleteCheck(c)
      <3>0. u \in Users /\ f \in Files /\ call[c].pc = "delete" /\ call[c] \in CallRecords
        BY <2>10, <2>h, <1>u DEF DeleteCheck, Start, At, PicturePcs, CallsInv
      <3>n. UNCHANGED <<tables, zset, blobs>>
        BY <2>10 DEF DeleteCheck
      <3>1. CASE /\ Execute({Stmt("del_share", u, f, 0, 0)})
                 /\ call' = [call EXCEPT ![c].pc = "unshare", ![c].row = "shared",
                                         ![c].n = IF f \in zset THEN 1 ELSE 0]
        <4> DEFINE x == [call[c] EXCEPT !.pc = "unshare", !.row = "shared",
                                        !.n = IF f \in zset THEN 1 ELSE 0]
        <4>1. call' = [call EXCEPT ![c] = x]
          BY <3>1, <1>u DEF CallsInv
        <4>2. x \in CallRecords /\ x.user = u /\ x.file = f /\ x.pc = "unshare"
          BY <3>0 DEF CallRecords, Pcs, OnLoop, Rows
        <4>3. CallsInv'
          <5> HIDE DEF x
          <5> QED
            BY <4>1, <4>2, <3>0, <2>x DEF PicturePcs
        <4>4. {Stmt("del_share", u, f, 0, 0)} \in SUBSET Stmts
          BY <3>0, StmtsTyped
        <4> QED
          BY <4>3, <4>4, <3>1, <3>n, <1>e, <1>u
      <3>2. CASE /\ call' = [call EXCEPT ![c].pc = "uncount", ![c].row = "private"]
                 /\ UNCHANGED pending
        <4> DEFINE x == [call[c] EXCEPT !.pc = "uncount", !.row = "private"]
        <4>1. call' = [call EXCEPT ![c] = x]
          BY <3>2, <1>u DEF CallsInv
        <4>2. x \in CallRecords /\ x.user = u /\ x.file = f /\ x.pc = "uncount"
          BY <3>0 DEF CallRecords, Pcs, OnLoop, Rows
        <4>3. CallsInv'
          <5> HIDE DEF x
          <5> QED
            BY <4>1, <4>2, <3>0, <2>x DEF PicturePcs
        <4> QED
          BY <4>3, <3>2, <3>n, <1>t, <1>s, <1>u
      <3>3. CASE Finish(c) /\ UNCHANGED pending
        BY <3>3, <3>n, <2>f, <1>t, <1>s, <1>u
      <3> QED
        BY <3>1, <3>2, <3>3, <2>10 DEF DeleteCheck
    <2>11. CASE DeleteUnshare(c)
      <3>0. call[c].pc = "unshare" /\ UNCHANGED <<tables, blobs>>
        BY <2>11 DEF DeleteUnshare, At
      <3>1. CASE Finish(c) /\ UNCHANGED <<zset, pending>>
        BY <3>1, <3>0, <2>f, <1>t, <1>s, <1>u
      <3>2. ASSUME NEW cnt \in {user_file_count[ShareKey], NoRow}, cnt # NoRow,
                   Execute({ShareLess(cnt)}), zset' \subseteq zset,
                   Goto(c, "uncount") \/ Finish(c)
            PROVE  TypeInv'
        <4>1. {ShareLess(cnt)} \in SUBSET Stmts
          BY <3>2, <2>j, <2>l, StmtsTyped
        <4>2. CallsInv'
          BY <3>2, <3>0, <2>f, <2>g DEF Pcs, OnLoop, PicturePcs
        <4>3. zset' \subseteq Files /\ blobs' \subseteq Blobs
          BY <3>2, <3>0, <1>u
        <4> QED
          BY <4>1, <4>2, <4>3, <3>2, <3>0, <1>e
      <3> QED
        BY <3>1, <3>2, <2>11 DEF DeleteUnshare
    <2>12. CASE DeleteUncount(c)
      <3>0. call[c].pc = "uncount" /\ UNCHANGED <<tables, zset, blobs>> /\ call[c].row \in Rows
        BY <2>12, <1>u DEF DeleteUncount, At, CallsInv, CallRecords
      <3>1. CASE Finish(c) /\ UNCHANGED pending
        BY <3>1, <3>0, <2>f, <1>t, <1>s, <1>u
      <3>2. ASSUME NEW cnt \in {user_file_count[u], NoRow}, Goto(c, "unref"),
                   Execute(LessOne(u, cnt) \cup {Stmt("del_row", u, f, call[c].row, 0)})
            PROVE  TypeInv'
        <4>1. u \in Users /\ f \in Files /\ u \in Counters /\ cnt \in Nat \cup {NoRow}
          BY <3>2, <3>0, <2>h, <2>j, <2>k DEF PicturePcs
        <4>2. LessOne(u, cnt) \cup {Stmt("del_row", u, f, call[c].row, 0)} \in SUBSET Stmts
          BY <4>1, <3>0, StmtsTyped DEF RowOps
        <4>3. CallsInv'
          BY <3>2, <3>0, <2>g DEF Pcs, OnLoop, PicturePcs
        <4> QED
          BY <4>2, <4>3, <3>2, <3>0, <1>e, <1>u
      <3> QED
        BY <3>1, <3>2, <2>12 DEF DeleteUncount
    <2>13. CASE DeleteUnref(c)
      <3>0. /\ call[c].pc = "unref" /\ UNCHANGED <<tables, zset, blobs>>
            /\ f \in Files /\ u \in Users /\ call[c] \in CallRecords
        BY <2>13, <2>h, <1>u DEF DeleteUnref, At, PicturePcs, CallsInv
      <3>1. CASE Finish(c) /\ UNCHANGED pending
        BY <3>1, <3>0, <2>f, <1>t, <1>s, <1>u
      <3>2. ASSUME NEW info \in {file_info[f], NoInfo}, info # NoInfo, ~LastRef(info),
                   Execute({Stmt("set_ref", None, f, info.count, info.count - 1)}), Finish(c)
            PROVE  TypeInv'
        <4>1. info.count \in Nat /\ info.count - 1 \in Nat \ {0}
          BY <3>0, <3>2, <2>m DEF LastRef
        <4>2. {Stmt("set_ref", None, f, info.count, info.count - 1)} \in SUBSET Stmts
          BY <3>0, <4>1, StmtsTyped
        <4> QED
          BY <4>2, <3>2, <3>0, <2>f, <1>e, <1>u
      <3>3. ASSUME NEW info \in {file_info[f], NoInfo}, LastRef(info),
                   Execute({Stmt("del_info", None, f, info.count, 0)}),
                   call' = [call EXCEPT ![c].blob = info.file_id, ![c].pc = "fdfs_delete"]
            PROVE  TypeInv'
        <4> DEFINE x == [call[c] EXCEPT !.blob = info.file_id, !.pc = "fdfs_delete"]
        <4>1. info.file_id \in Blobs /\ info.count \in Nat
          BY <3>0, <3>3, <2>m DEF LastRef
        <4>2. call' = [call EXCEPT ![c] = x]
          BY <3>3, <1>u DEF CallsInv
        <4>3. /\ x \in CallRecords /\ x.user = u /\ x.file = f
              /\ x.pc = "fdfs_delete" /\ x.blob \in Blobs
          BY <4>1, <3>0 DEF CallRecords, Pcs
        <4>4. CallsInv'
          <5> HIDE DEF x
          <5> QED
            BY <4>2, <4>3, <3>0, <2>x DEF PicturePcs
        <4>5. {Stmt("del_info", None, f, info.count, 0)} \in SUBSET Stmts
          BY <3>0, <4>1, StmtsTyped
        <4> QED
          BY <4>4, <4>5, <3>3, <3>0, <1>e, <1>u
      <3> QED
        BY <3>1, <3>2, <3>3, <2>13 DEF DeleteUnref
    <2>14. CASE FdfsDelete(c)
      BY <2>14, <2>f, <1>t, <1>s, <1>u DEF FdfsDelete
    <2>15. CASE ShareCheck(c)
      <3>0. u \in Users /\ f \in Files /\ call[c].pc = "share" /\ UNCHANGED <<tables, blobs>>
        BY <2>15, <2>h DEF ShareCheck, Start, At, PicturePcs
      <3>1. CASE Redis(zset \cup {f}) /\ Finish(c) /\ UNCHANGED pending
        <4>1. zset' \subseteq Files
          BY <3>0, <3>1, <1>u DEF Redis
        <4> QED
          BY <4>1, <3>0, <3>1, <2>f, <1>t, <1>s, <1>u
      <3>2. CASE /\ Execute({Stmt("share_row", u, f, "private", 0), Stmt("ins_share", u, f, 0, 0)})
                 /\ Goto(c, "share_count") /\ UNCHANGED zset
        <4>1. {Stmt("share_row", u, f, "private", 0), Stmt("ins_share", u, f, 0, 0)}
                 \in SUBSET Stmts
          BY <3>0, StmtsTyped DEF RowOps, Rows
        <4>2. CallsInv'
          BY <3>2, <3>0, <2>g DEF Pcs, OnLoop, PicturePcs
        <4> QED
          BY <4>1, <4>2, <3>2, <3>0, <1>e, <1>u
      <3> QED
        BY <3>1, <3>2, <2>15 DEF ShareCheck
    <2>16. CASE ShareCount(c)
      <3>0. f \in Files /\ Finish(c) /\ UNCHANGED <<tables, blobs>>
        BY <2>16, <2>h DEF ShareCount, At, PicturePcs
      <3>1. zset' \subseteq Files
        BY <3>0, <2>16, <1>u DEF ShareCount
      <3>2. PICK cnt \in {user_file_count[ShareKey], NoRow} : Execute({AddOne(ShareKey, cnt)})
        BY <2>16 DEF ShareCount
      <3>3. {AddOne(ShareKey, cnt)} \in SUBSET Stmts
        BY <2>j, <2>l, StmtsTyped
      <3> QED
        BY <3>0, <3>1, <3>2, <3>3, <2>f, <1>e, <1>u
    <2>17. CASE Cancel(c)
      <3>0. u \in Users /\ f \in Files /\ Finish(c) /\ UNCHANGED <<tables, blobs>>
        BY <2>17, <2>h DEF Cancel, Start, At, PicturePcs
      <3>1. /\ Stmt("unshare_row", u, f, "shared", 0) \in Stmts
            /\ Stmt("del_share", u, f, 0, 0) \in Stmts
        BY <3>0, StmtsTyped DEF RowOps, Rows
      <3>2. CASE Execute({Stmt("unshare_row", u, f, "shared", 0)}) /\ UNCHANGED zset
        <4>1. {Stmt("unshare_row", u, f, "shared", 0)} \in SUBSET Stmts
          BY <3>1
        <4> QED
          BY <4>1, <3>2, <3>0, <2>f, <1>e, <1>u
      <3>3. ASSUME NEW cnt \in {user_file_count[ShareKey], NoRow},
                   Execute({Stmt("unshare_row", u, f, "shared", 0)} \cup
                           ({Stmt("del_share", u, f, 0, 0)} \cup LessOne(ShareKey, cnt))),
                   zset' \subseteq zset
            PROVE  TypeInv'
        <4>1. LessOne(ShareKey, cnt) \subseteq Stmts
          BY <2>j, <2>l, StmtsTyped
        <4>2. {Stmt("unshare_row", u, f, "shared", 0)} \cup
                 ({Stmt("del_share", u, f, 0, 0)} \cup LessOne(ShareKey, cnt)) \in SUBSET Stmts
          BY <3>1, <4>1
        <4>3. zset' \subseteq Files /\ CallsInv'
          BY <3>0, <3>3, <2>f, <1>u
        <4> QED
          BY <4>2, <4>3, <3>3, <3>0, <1>e, <1>u
      <3> QED
        BY <3>2, <3>3, <2>17 DEF Cancel
    <2>18. CASE SaveCheck(c)
      BY <2>18, <2>f, <2>g, <1>t, <1>s, <1>u
         DEF SaveCheck, Start, At, Pcs, OnLoop, PicturePcs
    <2>19. CASE SaveRef(c)
      <3>0. /\ call[c].pc = "save_ref" /\ UNCHANGED <<tables, zset, blobs>>
            /\ u \in Users /\ f \in Files
        BY <2>19, <2>h DEF SaveRef, At, PicturePcs
      <3>1. CASE Finish(c) /\ UNCHANGED pending
        BY <3>1, <3>0, <2>f, <1>t, <1>s, <1>u
      <3>2. ASSUME NEW info \in {file_info[f], NoInfo}, info # NoInfo, Goto(c, "save_count"),
                   Execute({Stmt("set_ref", None, f, info.count, info.count + 1),
                            Stmt("ins_row", u, f, "none", 0)})
            PROVE  TypeInv'
        <4>1. info.count \in Nat /\ info.count + 1 \in Nat \ {0}
          BY <3>0, <3>2, <2>m
        <4>2. {Stmt("set_ref", None, f, info.count, info.count + 1),
               Stmt("ins_row", u, f, "none", 0)} \in SUBSET Stmts
          BY <3>0, <4>1, StmtsTyped DEF RowOps, Rows
        <4>3. CallsInv'
          BY <3>2, <3>0, <2>g DEF Pcs, OnLoop, PicturePcs
        <4> QED
          BY <4>2, <4>3, <3>2, <3>0, <1>e, <1>u
      <3> QED
        BY <3>1, <3>2, <2>19 DEF SaveRef
    <2>20. CASE SaveCount(c)
      <3>1. u \in Counters
        BY <2>20, <2>h, <2>k DEF SaveCount, At, PicturePcs
      <3>2. PICK cnt \in {user_file_count[u], NoRow} : Execute({AddOne(u, cnt)})
        BY <2>20 DEF SaveCount
      <3>3. {AddOne(u, cnt)} \in SUBSET Stmts
        BY <3>1, <2>j, StmtsTyped
      <3> QED
        BY <3>2, <3>3, <2>20, <2>f, <1>e, <1>u DEF SaveCount
    <2>21. CASE Pv(c)
      <3>1. zset' \subseteq Files
        BY <2>21, <2>h, <1>u DEF Pv, Start, At, PicturePcs, Redis
      <3> QED
        BY <3>1, <2>21, <2>f, <1>t, <1>s, <1>u DEF Pv
    <2>22. CASE ShareTotal(c)
      <3>1. PICK S : S \in {{}, {Stmt("ins_count", ShareKey, None, NoRow, 0)}} /\ Execute(S)
        BY <2>22 DEF ShareTotal
      <3>2. S \in SUBSET Stmts
        BY <3>1, StmtsTyped
      <3> QED
        BY <3>1, <3>2, <2>22, <2>f, <1>e, <1>u DEF ShareTotal
    <2>23. CASE SharePicture(c)
      <3>0. u \in Users
        BY <2>23, <2>h DEF SharePicture, Start, At, PicturePcs
      <3>1. PICK l \in FreeLinks : Execute({Stmt("ins_picture", u, l, 0, 0)})
        BY <2>23 DEF SharePicture
      <3>2. {Stmt("ins_picture", u, l, 0, 0)} \in SUBSET Stmts
        BY <3>0, <3>1, StmtsTyped DEF FreeLinks
      <3>3. CallsInv'
        BY <2>23, <2>g DEF SharePicture, Start, At, Pcs, OnLoop, PicturePcs
      <3> QED
        BY <3>1, <3>2, <3>3, <2>23, <1>e, <1>u DEF SharePicture
    <2>24. CASE PictureCount(c)
      <3> DEFINE k == PictureKey(u)
      <3>1. k \in Counters
        BY <2>24, <2>h, <2>k DEF PictureCount, At, PicturePcs
      <3>2. PICK cnt \in {user_file_count[k], NoRow} : Execute({AddOne(k, cnt)})
        BY <2>24 DEF PictureCount
      <3>3. {AddOne(k, cnt)} \in SUBSET Stmts
        BY <3>1, <2>j, StmtsTyped
      <3> QED
        BY <3>2, <3>3, <2>24, <2>f, <1>e, <1>u DEF PictureCount
    <2>25. CASE CancelPicture(c)
      <3>1. CallsInv'
        <4>1. CASE Finish(c)
          BY <4>1, <2>f
        <4>2. CASE Goto(c, "unpicture_count")
          BY <4>2, <2>25, <1>u, GotoTyped DEF CancelPicture, Start, At, Pcs, OnLoop, PicturePcs
        <4> QED
          BY <4>1, <4>2, <2>25 DEF CancelPicture
      <3> QED
        BY <3>1, <2>25, <1>t, <1>s, <1>u DEF CancelPicture
    <2>26. CASE PictureUncount(c)
      <3> DEFINE k == PictureKey(u)
      <3>0. u \in Users /\ f \in Links /\ k \in Counters
        BY <2>26, <2>i, <2>k DEF PictureUncount, At, PicturePcs
      <3>1. PICK cnt \in {user_file_count[k], NoRow} :
               Execute({Stmt("del_picture", u, f, 0, 0)} \cup LessOne(k, cnt))
        BY <2>26 DEF PictureUncount
      <3>2. {Stmt("del_picture", u, f, 0, 0)} \cup LessOne(k, cnt) \in SUBSET Stmts
        BY <3>0, <2>j, StmtsTyped
      <3> QED
        BY <3>1, <3>2, <2>26, <2>f, <1>e, <1>u DEF PictureUncount
    <2> QED
      BY <1>4, <2>1, <2>2, <2>3, <2>4, <2>5, <2>6, <2>7, <2>8, <2>9, <2>10, <2>11, <2>12,
         <2>13, <2>14, <2>15, <2>16, <2>17, <2>18, <2>19, <2>20, <2>21, <2>22, <2>23,
         <2>24, <2>25, <2>26 DEF Handle
  <1> QED
    BY <1>1, <1>2, <1>3, <1>4 DEF Next

\* The tables, the writes that wait and the requests are of their types, whatever
\* the clients do.
LEMMA Types == Spec => []TypeInv
  BY TypeInvInit, TypeInvStep, PTL DEF Spec

-----------------------------------------------------------------------------
(* The history keeps its types.                                            *)

HistoryInv ==
    /\ asked \in 0..MaxRequests /\ faults \in 0..MaxFaults
    /\ kept \subseteq Files /\ upset \subseteq Files \cup Counters

LEMMA AboutTyped ==
    ASSUME NEW s \in Stmts
    PROVE  About(s) \subseteq Files \cup Counters /\ (s.op = "del_info" => s.file \in Files)
  BY DEF Stmts, RefStmts, RowStmts, ShareStmts, RowOps, CountStmts, PictureStmts, About, Counters

LEMMA HistoryInvStep == TypeInv /\ HistoryInv /\ [Next]_vars => HistoryInv'
  <1> SUFFICES ASSUME TypeInv, HistoryInv, [Next]_vars PROVE HistoryInv'
    OBVIOUS
  <1>b. MaxFaults \in Nat /\ MaxRequests \in Nat
    BY StoreAssumption DEF StoreAssumption
  <1>f. ASSUME Fault PROVE faults' \in 0..MaxFaults
    BY <1>f, <1>b DEF Fault, HistoryInv
  <1>s. ASSUME NEW S \in SUBSET (Files \cup Counters), Spoil(S)
        PROVE  upset' \subseteq Files \cup Counters
    BY <1>s DEF Spoil, HistoryInv
  <1>r. ASSUME NEW s \in Stmts, Run(s), UNCHANGED asked PROVE HistoryInv'
    <2>1. About(s) \subseteq Files \cup Counters /\ (s.op = "del_info" => s.file \in Files)
      BY <1>r, AboutTyped
    <2>2. upset' \subseteq Files \cup Counters
      BY <1>r, <2>1, <1>s DEF Run
    <2>3. faults' \in 0..MaxFaults /\ kept' \subseteq Files
      BY <1>r, <2>1, <1>f DEF Run, HistoryInv
    <2> QED
      BY <2>2, <2>3, <1>r DEF HistoryInv
  <1>k. ShareKey \in Counters
    BY StmtsTyped
  <1>1. CASE UNCHANGED vars
    BY <1>1 DEF vars, history, HistoryInv
  <1>2. CASE RunPending /\ UNCHANGED asked
    <2>1. PICK s \in BagToSet(pending) : Run(s)
      BY <1>2 DEF RunPending
    <2>2. s \in Stmts
      BY <2>1 DEF TypeInv, Waiting
    <2> QED
      BY <2>1, <2>2, <1>2, <1>r
  <1>3. ASSUME NEW c \in Calls, Begin(c) PROVE HistoryInv'
    <2>1. asked + faults < MaxRequests /\ asked' = asked + 1 /\ UNCHANGED <<faults, history>>
      BY <1>3 DEF Begin
    <2> QED
      BY <2>1, <1>b DEF history, HistoryInv
  <1>4. ASSUME NEW c \in Calls, Handle(c), UNCHANGED asked PROVE HistoryInv'
    <2> DEFINE u == call[c].user
               f == call[c].file
    <2>c. call[c] \in CallRecords /\ CallTypeInv(call[c])
      BY DEF TypeInv, CallsInv
    <2>h. ASSUME call[c].pc \notin PicturePcs \cup {"idle"} PROVE u \in Users /\ f \in Files
      BY <2>h, <2>c DEF CallTypeInv
    <2>k. u \in Users => u \in Counters /\ PictureKey(u) \in Counters
      BY StmtsTyped
    <2>s. ASSUME NEW x, NEW y, NEW z, Select(x, y, z) PROVE faults' \in 0..MaxFaults
      BY <2>s, <1>f DEF Select, HistoryInv
    <2>z. ASSUME NEW Z, Redis(Z) PROVE faults' \in 0..MaxFaults
      BY <2>z, <1>f DEF Redis, HistoryInv
    <2>q. ASSUME faults' \in 0..MaxFaults, UNCHANGED history PROVE HistoryInv'
      BY <2>q, <1>4 DEF history, HistoryInv
    <2>p. ASSUME faults' \in 0..MaxFaults, UNCHANGED kept,
                 NEW S \in SUBSET (Files \cup Counters), Spoil(S) \/ UNCHANGED upset
          PROVE  HistoryInv'
      BY <2>p, <1>s, <1>4 DEF HistoryInv
    <2>a. faults \in 0..MaxFaults
      BY DEF HistoryInv
    <2>1. CASE InstantCheck(c)
      BY <2>1, <2>s, <2>q DEF InstantCheck
    <2>2. CASE InstantExists(c)
      BY <2>2, <2>s, <2>q DEF InstantExists
    <2>3. CASE InstantRef(c)
      <3>1. call[c].n \in Nat /\ call[c].n + 1 \in Nat \ {0} /\ f \in Files
        BY <2>3, <2>c, <2>h DEF InstantRef, At, CallTypeInv, PicturePcs
      <3>2. Stmt("set_ref", None, f, call[c].n, call[c].n + 1) \in Stmts
        BY <3>1, StmtsTyped
      <3> QED
        BY <3>2, <2>3, <1>r, <1>4 DEF InstantRef
    <2>4. CASE FdfsUpload(c) \/ UploadFails(c) \/ FdfsDelete(c) \/ SharePicture(c)
      BY <2>4, <2>a, <2>q DEF FdfsUpload, UploadFails, FdfsDelete, SharePicture
    <2>5. CASE InsertInfo(c)
      <3>1. f \in Files
        BY <2>5, <2>h DEF InsertInfo, At, PicturePcs
      <3>2. faults' \in 0..MaxFaults /\ (Spoil({f}) \/ UNCHANGED upset) /\ UNCHANGED kept
        BY <2>5, <2>a, <1>f DEF InsertInfo
      <3> QED
        BY <3>1, <3>2, <2>p
    <2>6. CASE InsertRow(c)
      <3>1. Stmt("ins_row", u, f, "none", 0) \in Stmts
        BY <2>6, <2>h, StmtsTyped DEF InsertRow, At, PicturePcs, RowOps, Rows
      <3> QED
        BY <3>1, <2>6, <1>r, <1>4 DEF InsertRow
    <2>7. CASE ReadCount(c)
      BY <2>7, <2>s, <2>q DEF ReadCount
    <2>8. CASE WriteCount(c)
      <3>1. u \in Users /\ call[c].n \in Nat \cup {NoRow}
        BY <2>8, <2>h, <2>c DEF WriteCount, At, PicturePcs, CallRecords
      <3>2. AddOne(u, call[c].n) \in Stmts
        BY <3>1, StmtsTyped
      <3> QED
        BY <3>2, <2>8, <1>r, <1>4 DEF WriteCount
    <2>9. CASE DeleteCheck(c)
      BY <2>9, <2>a, <1>f, <2>q DEF DeleteCheck
    <2>10. CASE DeleteUnshare(c)
      <3>1. faults' \in 0..MaxFaults /\ UNCHANGED kept
        BY <2>10, <2>s, <1>f DEF DeleteUnshare
      <3>2. Spoil({}) \/ Spoil({ShareKey})
        BY <2>10 DEF DeleteUnshare
      <3> QED
        BY <3>1, <3>2, <1>k, <2>p
    <2>11. CASE DeleteUncount(c)
      <3>1. faults' \in 0..MaxFaults /\ UNCHANGED kept
        BY <2>11, <2>s DEF DeleteUncount
      <3>2. Spoil({}) \/ Spoil({u, ShareKey})
        BY <2>11 DEF DeleteUncount
      <3>3. u \in Counters
        BY <2>11, <2>h, <2>k DEF DeleteUncount, At, PicturePcs
      <3> QED
        BY <3>1, <3>2, <3>3, <1>k, <2>p
    <2>12. CASE DeleteUnref(c)
      <3>1. faults' \in 0..MaxFaults /\ UNCHANGED kept
        BY <2>12, <2>s DEF DeleteUnref
      <3>2. Spoil({}) \/ Spoil({f})
        BY <2>12 DEF DeleteUnref
      <3>3. f \in Files
        BY <2>12, <2>h DEF DeleteUnref, At, PicturePcs
      <3> QED
        BY <3>1, <3>2, <3>3, <2>p
    <2>13. CASE ShareCheck(c)
      <3>1. faults' \in 0..MaxFaults /\ UNCHANGED kept
        BY <2>13, <2>s, <2>z DEF ShareCheck
      <3>2. Spoil({}) \/ Spoil({ShareKey}) \/ UNCHANGED upset
        BY <2>13 DEF ShareCheck
      <3> QED
        BY <3>1, <3>2, <1>k, <2>p
    <2>14. CASE ShareCount(c)
      <3>1. faults' \in 0..MaxFaults /\ UNCHANGED kept
        BY <2>14, <2>s, <1>f DEF ShareCount
      <3>2. Spoil({ShareKey}) \/ UNCHANGED upset
        BY <2>14 DEF ShareCount
      <3> QED
        BY <3>1, <3>2, <1>k, <2>p
    <2>15. CASE Cancel(c)
      <3>1. faults' \in 0..MaxFaults /\ UNCHANGED kept
        BY <2>15, <2>s, <1>f DEF Cancel
      <3>2. Spoil({}) \/ Spoil({ShareKey})
        BY <2>15 DEF Cancel
      <3> QED
        BY <3>1, <3>2, <1>k, <2>p
    <2>16. CASE SaveCheck(c)
      BY <2>16, <2>s, <2>q DEF SaveCheck
    <2>17. CASE SaveRef(c)
      BY <2>17, <2>s, <2>q DEF SaveRef
    <2>18. CASE SaveCount(c)
      BY <2>18, <2>s, <2>q DEF SaveCount
    <2>19. CASE Pv(c)
      <3>1. faults' \in 0..MaxFaults /\ UNCHANGED kept
        BY <2>19, <2>z DEF Pv
      <3>2. Spoil({}) \/ Spoil({ShareKey})
        BY <2>19 DEF Pv
      <3> QED
        BY <3>1, <3>2, <1>k, <2>p
    <2>20. CASE ShareTotal(c)
      BY <2>20, <2>s, <2>q DEF ShareTotal
    <2>21. CASE PictureCount(c)
      BY <2>21, <2>s, <2>q DEF PictureCount
    <2>22. CASE CancelPicture(c)
      BY <2>22, <2>s, <2>q DEF CancelPicture
    <2>23. CASE PictureUncount(c)
      <3>1. faults' \in 0..MaxFaults /\ UNCHANGED kept
        BY <2>23, <2>s DEF PictureUncount
      <3>2. Spoil({}) \/ Spoil({PictureKey(u)})
        BY <2>23 DEF PictureUncount
      <3>3. PictureKey(u) \in Counters
        BY <2>23, <2>c, <2>k DEF PictureUncount, At, PicturePcs, CallTypeInv
      <3> QED
        BY <3>1, <3>2, <3>3, <2>p
    <2> QED
      BY <1>4, <2>1, <2>2, <2>3, <2>4, <2>5, <2>6, <2>7, <2>8, <2>9, <2>10, <2>11, <2>12,
         <2>13, <2>14, <2>15, <2>16, <2>17, <2>18, <2>19, <2>20, <2>21, <2>22, <2>23 DEF Handle
  <1> QED
    BY <1>1, <1>2, <1>3, <1>4 DEF Next

\* Every table, write, request and counter has its type: the counters never fall
\* below zero and a row of file_info always names a blob, whatever requests
\* overlap and whichever statement or Redis call fails.
THEOREM TypesKept == Spec => []TypeOK
  <1>1. Init => HistoryInv
    BY StoreAssumption DEF Init, HistoryInv, StoreAssumption
  <1>2. TypeInv /\ HistoryInv => TypeOK
    <2> SUFFICES ASSUME TypeInv, HistoryInv PROVE TypeOK
      OBVIOUS
    <2>1. \A s \in Stmts : StmtOK(s)
      BY DEF Stmts, RefStmts, RowStmts, ShareStmts, RowOps, CountStmts, PictureStmts, StmtOK,
             Ops, Rows, Counters
    <2> QED
      BY <2>1 DEF TypeInv, TablesInv, CallsInv, CallRecords, HistoryInv, TypeOK, Waiting
  <1>3. Spec => []HistoryInv
    BY <1>1, HistoryInvStep, Types, PTL DEF Spec
  <1> QED
    BY <1>2, <1>3, Types, PTL

-----------------------------------------------------------------------------
(* The blob of a row.  An id belongs to one row or to one upload under way,  *)
(* and a request that is about to delete it has sent the DELETE of its row.  *)

Leaves(f) == DeleteWaits(f) \/ f \in kept

BlobInv ==
    /\ \A f \in Files : file_info[f].file_id # None /\ ~Leaves(f) => file_info[f].file_id \in blobs
    /\ \A f, g \in Files : f # g /\ file_info[f].file_id # None =>
          file_info[f].file_id # file_info[g].file_id
    /\ \A c \in Calls : call[c].pc = "fdfs_delete" =>
          \A f \in Files : file_info[f].file_id = call[c].blob => Leaves(f)
    /\ \A c \in Calls : call[c].pc = "insert_info" =>
          /\ call[c].blob \in blobs
          /\ \A f \in Files : file_info[f].file_id # call[c].blob
          /\ \A d \in Calls \ {c} : call[d].blob # call[c].blob

\* A step that leaves the blobs and the ids of the rows alone, takes back no
\* DELETE and lets no request take up a blob.
Harmless ==
    /\ \A f \in Files : file_info'[f].file_id = file_info[f].file_id
    /\ blobs' = blobs
    /\ \A f \in Files : Leaves(f) => Leaves(f)'
    /\ \A c \in Calls : \/ call'[c].pc = call[c].pc /\ call'[c].blob = call[c].blob
                        \/ /\ call'[c].pc \notin {"fdfs_delete", "insert_info"}
                           /\ call'[c].blob \in {call[c].blob, None}

LEMMA HarmlessKeeps == ASSUME TypeInv, BlobInv, Harmless PROVE BlobInv'
  <1>1. \A f \in Files : file_info'[f].file_id # None /\ ~Leaves(f)' => file_info'[f].file_id \in blobs'
    BY DEF BlobInv, Harmless
  <1>2. \A f, g \in Files : f # g /\ file_info'[f].file_id # None =>
          file_info'[f].file_id # file_info'[g].file_id
    BY DEF BlobInv, Harmless
  <1>3. \A c \in Calls : call'[c].pc = "fdfs_delete" =>
          \A f \in Files : file_info'[f].file_id = call'[c].blob => Leaves(f)'
    BY DEF BlobInv, Harmless
  <1>4. ASSUME NEW c \in Calls, call'[c].pc = "insert_info"
        PROVE  /\ call'[c].blob \in blobs'
               /\ \A f \in Files : file_info'[f].file_id # call'[c].blob
               /\ \A d \in Calls \ {c} : call'[d].blob # call'[c].blob
    <2>1. call[c].pc = "insert_info" /\ call'[c].blob = call[c].blob
      BY <1>4 DEF Harmless
    <2>2. call[c].blob \in Blobs
      BY <2>1 DEF TypeInv, CallsInv, CallTypeInv
    <2>3. call[c].blob # None
      BY <2>2, StoreAssumption DEF StoreAssumption
    <2> QED
      BY <2>1, <2>3 DEF BlobInv, Harmless
  <1> QED
    BY <1>1, <1>2, <1>3, <1>4 DEF BlobInv

LEMMA BlobInvInit == Init => BlobInv
  BY DEF Init, BlobInv, NoInfo, Idle

\* What FdfsUpload picks is new, and what DeleteUnref hands on leaves.
LEMMA BlobInvStep == TypeInv /\ BlobInv /\ [Next]_vars => BlobInv'
  <1> SUFFICES ASSUME TypeInv, BlobInv, [Next]_vars PROVE BlobInv'
    OBVIOUS
  <1>u. /\ TablesInv /\ IsABag(pending) /\ Waiting \subseteq Stmts
        /\ blobs \subseteq Blobs /\ CallsInv /\ None \notin Blobs
    BY StoreAssumption DEF TypeInv, StoreAssumption
  <1>h. Harmless => BlobInv'
    BY HarmlessKeeps
  <1>i. UNCHANGED tables => \A f \in Files : file_info'[f].file_id = file_info[f].file_id
    BY DEF tables
  <1>l. ASSUME Waiting \subseteq Waiting', kept \subseteq kept'
        PROVE  \A f \in Files : Leaves(f) => Leaves(f)'
    BY <1>l DEF Leaves, DeleteWaits, Waiting
  <1>e. ASSUME NEW S, Execute(S) PROVE Waiting \subseteq Waiting'
    BY <1>e, <1>u, ExecuteAdds
  <1>a. ASSUME NEW s \in Stmts, Run(s)
        PROVE  /\ kept \subseteq kept'
               /\ s.op # "del_info" =>
                     \A f \in Files : file_info'[f].file_id = file_info[f].file_id
               /\ s.op = "del_info" =>
                     \/ file_info' = [file_info EXCEPT ![s.file] = NoInfo]
                     \/ UNCHANGED file_info /\ s.file \in kept'
    <2>1. CASE Apply(s) /\ UNCHANGED kept
      <3>1. CASE SetRef(s)
        BY <2>1, <3>1, <1>u DEF SetRef, TablesInv, NoInfo
      <3>2. CASE DeleteInfo(s)
        BY <2>1, <3>2 DEF DeleteInfo
      <3>3. CASE UNCHANGED file_info /\ s.op # "del_info"
        BY <2>1, <3>3
      <3> QED
        BY <2>1, <3>1, <3>2, <3>3
           DEF Apply, ListRow, Count, ShareList, PictureList, RowOps
    <2>2. CASE UNCHANGED tables /\ kept' = IF s.op = "del_info" THEN kept \cup {s.file} ELSE kept
      BY <2>2, <1>i DEF tables
    <2> QED
      BY <1>a, <2>1, <2>2 DEF Run
  <1>1. CASE UNCHANGED vars
    BY <1>1, <1>h DEF vars, tables, history, Harmless, Leaves, DeleteWaits
  <1>2. CASE RunPending
    <2>1. PICK s \in BagToSet(pending) : /\ Run(s) /\ pending' = pending (-) SetToBag({s})
                                         /\ UNCHANGED <<zset, blobs, call>>
      BY <1>2 DEF RunPending
    <2>2. s \in Stmts /\ Waiting \ {s} \subseteq Waiting'
      BY <2>1, <1>u, RunTakes DEF Waiting
    <2>3. CASE s.op # "del_info"
      <3>1. \A f \in Files : Leaves(f) => Leaves(f)'
        BY <2>1, <2>2, <2>3, <1>a DEF Leaves, DeleteWaits, Waiting
      <3> QED
        BY <3>1, <2>1, <2>2, <2>3, <1>a, <1>h DEF Harmless
    <2>4. CASE s.op = "del_info"
      <3> DEFINE g == s.file
      <3>1. \A f \in Files \ {g} : Leaves(f) => Leaves(f)'
        BY <2>1, <2>2, <2>4, <1>a DEF Leaves, DeleteWaits, Waiting
      <3>2. CASE file_info' = [file_info EXCEPT ![g] = NoInfo]
        <4>1. \A f \in Files : file_info'[f].file_id = IF f = g THEN None ELSE file_info[f].file_id
          BY <3>2, <1>u DEF TablesInv, NoInfo
        <4>2. \A f \in Files : file_info'[f].file_id # None /\ ~Leaves(f)' =>
                 file_info'[f].file_id \in blobs'
          BY <4>1, <3>1, <2>1 DEF BlobInv
        <4>3. \A f, h \in Files : f # h /\ file_info'[f].file_id # None =>
                 file_info'[f].file_id # file_info'[h].file_id
          BY <4>1 DEF BlobInv
        <4>4. ASSUME NEW c \in Calls, call'[c].pc = "fdfs_delete", NEW f \in Files,
                     file_info'[f].file_id = call'[c].blob
              PROVE  Leaves(f)'
          <5>1. call[c].pc = "fdfs_delete" /\ call'[c].blob = call[c].blob
            BY <4>4, <2>1
          <5>2. call[c].blob # None
            BY <5>1, <1>u DEF CallsInv, CallTypeInv
          <5>3. f # g /\ Leaves(f)
            BY <5>1, <5>2, <4>1, <4>4 DEF BlobInv
          <5> QED
            BY <5>3, <3>1
        <4>5. ASSUME NEW c \in Calls, call'[c].pc = "insert_info"
              PROVE  /\ call'[c].blob \in blobs'
                     /\ \A f \in Files : file_info'[f].file_id # call'[c].blob
                     /\ \A d \in Calls \ {c} : call'[d].blob # call'[c].blob
          <5>1. call[c].pc = "insert_info" /\ call' = call /\ blobs' = blobs
            BY <4>5, <2>1
          <5>2. call[c].blob # None
            BY <5>1, <1>u DEF CallsInv, CallTypeInv
          <5> QED
            BY <5>1, <5>2, <4>1 DEF BlobInv
        <4> QED
          BY <4>2, <4>3, <4>4, <4>5 DEF BlobInv
      <3>3. CASE UNCHANGED file_info /\ g \in kept'
        <4>1. \A f \in Files : Leaves(f) => Leaves(f)'
          BY <3>1, <3>3 DEF Leaves
        <4> QED
          BY <4>1, <3>3, <2>1, <1>h DEF Harmless
      <3> QED
        BY <3>2, <3>3, <2>1, <2>2, <2>4, <1>a
    <2> QED
      BY <2>3, <2>4
  <1>3. ASSUME NEW c \in Calls, Begin(c) PROVE BlobInv'
    <2>1. PICK k \in Kinds, u \in Users, f \in Files \cup Links :
             /\ f \in Links <=> k = "unpicture"
             /\ MayRequest(k, u, f)
             /\ call' = [call EXCEPT ![c] =
                            [Idle EXCEPT !.pc = IF k = "store" THEN "instant" ELSE k,
                                         !.user = u, !.file = f]]
      BY <1>3 DEF Begin
    <2>2. k \in KindNames
      BY StoreAssumption DEF StoreAssumption
    <2> DEFINE x == [Idle EXCEPT !.pc = IF k = "store" THEN "instant" ELSE k,
                                 !.user = u, !.file = f]
    <2>3. x.pc \notin {"fdfs_delete", "insert_info"} /\ x.blob = None
      BY <2>2 DEF Idle, KindNames
    <2>4. call'[c] = x /\ \A d \in Calls \ {c} : call'[d] = call[d]
      BY <2>1, <1>u DEF CallsInv
    <2>5. UNCHANGED <<tables, blobs, pending, kept>>
      BY <1>3 DEF Begin, history
    <2>6. \A f_1 \in Files : Leaves(f_1) => Leaves(f_1)'
      BY <2>5 DEF Leaves, DeleteWaits
    <2> HIDE DEF x
    <2> QED
      BY <2>3, <2>4, <2>5, <2>6, <1>h, <1>i DEF Harmless
  <1>4. ASSUME NEW c \in Calls, Handle(c) PROVE BlobInv'
    <2> DEFINE u == call[c].user
               f == call[c].file
    <2>c. call[c] \in CallRecords /\ CallTypeInv(call[c])
      BY <1>u DEF CallsInv
    <2>d. /\ call' = [call EXCEPT ![c] = call'[c]] => \A d \in Calls \ {c} : call'[d] = call[d]
          /\ \A x : call' = [call EXCEPT ![c] = x] =>
                call'[c] = x /\ \A d \in Calls \ {c} : call'[d] = call[d]
      BY <1>u DEF CallsInv
    <2>m. ASSUME NEW x, call' = [call EXCEPT ![c] = x],
                 x.pc \notin {"fdfs_delete", "insert_info"}, x.blob \in {call[c].blob, None},
                 blobs' = blobs, Waiting \subseteq Waiting', kept \subseteq kept',
                 \A g \in Files : file_info'[g].file_id = file_info[g].file_id
          PROVE  BlobInv'
      <3>1. call'[c] = x /\ \A d \in Calls \ {c} : call'[d] = call[d]
        BY <2>m, <2>d
      <3> QED
        BY <2>m, <3>1, <1>l, <1>h DEF Harmless
    <2>g. ASSUME NEW p, Goto(c, p)
          PROVE  \E x : call' = [call EXCEPT ![c] = x] /\ x.pc = p /\ x.blob = call[c].blob
      <3> DEFINE x == [call[c] EXCEPT !.pc = p]
      <3>1. call' = [call EXCEPT ![c] = x]
        BY <2>g DEF Goto
      <3>2. x.pc = p /\ x.blob = call[c].blob
        BY <2>c DEF CallRecords
      <3> QED
        BY <3>1, <3>2
    <2>f. ASSUME Finish(c)
          PROVE  \E x : call' = [call EXCEPT ![c] = x] /\ x.pc = "idle" /\ x.blob = None
      <3>1. call' = [call EXCEPT ![c] = Idle]
        BY <2>f DEF Finish
      <3>2. Idle.pc = "idle" /\ Idle.blob = None
        BY DEF Idle
      <3> QED
        BY <3>1, <3>2
    <2>o. ASSUME UNCHANGED tables, UNCHANGED blobs, UNCHANGED kept,
                 UNCHANGED pending \/ \E S : Execute(S),
                 Finish(c) \/ \E p : p \notin {"fdfs_delete", "insert_info"} /\ Goto(c, p)
          PROVE  BlobInv'
      <3>1. Waiting \subseteq Waiting'
        BY <2>o, <1>e DEF Waiting
      <3>2. PICK x : /\ call' = [call EXCEPT ![c] = x] /\ x.blob \in {call[c].blob, None}
                     /\ x.pc \notin {"fdfs_delete", "insert_info"}
        BY <2>o, <2>f, <2>g
      <3> QED
        BY <3>1, <3>2, <2>o, <2>m, <1>i
    <2>w. UNCHANGED pending => Waiting \subseteq Waiting'
      BY DEF Waiting
    <2>1. CASE InstantCheck(c)
      <3>1. PICK info \in {file_info[f], NoInfo} :
               call' = [call EXCEPT ![c].n = info.count,
                                    ![c].pc = IF info = NoInfo THEN "fdfs_upload"
                                              ELSE "instant_exists"]
        BY <2>1 DEF InstantCheck
      <3> DEFINE x == [call[c] EXCEPT !.n = info.count,
                              !.pc = IF info = NoInfo THEN "fdfs_upload"
                                     ELSE "instant_exists"]
      <3>2. call' = [call EXCEPT ![c] = x]
        BY <3>1, <1>u DEF CallsInv
      <3>3. x.pc \notin {"fdfs_delete", "insert_info"} /\ x.blob = call[c].blob
        BY <2>c DEF CallRecords
      <3>4. UNCHANGED tables /\ UNCHANGED blobs /\ UNCHANGED pending /\ UNCHANGED kept
        BY <2>1 DEF InstantCheck, history
      <3> HIDE DEF x
      <3> QED
        BY <3>2, <3>3, <3>4, <2>w, <2>m, <1>i
    <2>2. CASE InstantExists(c)
      BY <2>2, <2>o DEF InstantExists, history
    <2>3. ASSUME NEW s \in Stmts, Run(s), s.op # "del_info", UNCHANGED blobs, UNCHANGED pending,
                 Finish(c) \/ \E p : p \notin {"fdfs_delete", "insert_info"} /\ Goto(c, p)
          PROVE  BlobInv'
      <3>1. PICK x : /\ call' = [call EXCEPT ![c] = x] /\ x.blob \in {call[c].blob, None}
                     /\ x.pc \notin {"fdfs_delete", "insert_info"}
        BY <2>3, <2>f, <2>g
      <3> QED
        BY <3>1, <2>3, <2>w, <2>m, <1>a
    <2>4. CASE InstantRef(c)
      <3>1. call[c].n \in Nat /\ call[c].n + 1 \in Nat \ {0} /\ f \in Files
        BY <2>4, <2>c DEF InstantRef, At, CallTypeInv, PicturePcs
      <3>2. /\ Stmt("set_ref", None, f, call[c].n, call[c].n + 1) \in Stmts
            /\ Stmt("set_ref", None, f, call[c].n, call[c].n + 1).op # "del_info"
        BY <3>1, StmtsTyped DEF Stmt
      <3> QED
        BY <3>2, <2>3, <2>4 DEF InstantRef
    <2>5. CASE FdfsUpload(c)
      <3>1. PICK b \in Blobs \ blobs :
              /\ \A g \in Files : file_info[g].file_id # b
              /\ \A d \in Calls : call[d].blob # b
              /\ blobs' = blobs \cup {b}
              /\ call' = [call EXCEPT ![c].blob = b, ![c].pc = "insert_info"]
        BY <2>5 DEF FdfsUpload
      <3>2. UNCHANGED <<tables, pending, kept>>
        BY <2>5 DEF FdfsUpload, history
      <3>3. file_info' = file_info /\ \A g \in Files : Leaves(g)' <=> Leaves(g)
        BY <3>2 DEF tables, Leaves, DeleteWaits
      <3> DEFINE x == [call[c] EXCEPT !.blob = b, !.pc = "insert_info"]
      <3>4. call' = [call EXCEPT ![c] = x]
        BY <3>1, <1>u DEF CallsInv
      <3>5. x.pc = "insert_info" /\ x.blob = b
        BY <2>c DEF CallRecords
      <3>6. call'[c].pc = "insert_info" /\ call'[c].blob = b
            /\ \A d \in Calls \ {c} : call'[d] = call[d]
        <4> HIDE DEF x
        <4> QED
          BY <3>4, <3>5, <2>d
      <3> HIDE DEF x
      <3>7. /\ \A g \in Files : file_info'[g].file_id # None /\ ~Leaves(g)' =>
                  file_info'[g].file_id \in blobs'
            /\ \A g, h \in Files : g # h /\ file_info'[g].file_id # None =>
                  file_info'[g].file_id # file_info'[h].file_id
            /\ \A d \in Calls : call'[d].pc = "fdfs_delete" =>
                  \A g \in Files : file_info'[g].file_id = call'[d].blob => Leaves(g)'
        BY <3>1, <3>3, <3>6 DEF BlobInv
      <3>8. ASSUME NEW d \in Calls, call'[d].pc = "insert_info"
            PROVE  /\ call'[d].blob \in blobs'
                   /\ \A g \in Files : file_info'[g].file_id # call'[d].blob
                   /\ \A e \in Calls \ {d} : call'[e].blob # call'[d].blob
        <4>0. /\ \A g \in Files : file_info'[g].file_id # b
              /\ \A e \in Calls : call[e].blob # b
              /\ blobs' = blobs \cup {b}
          BY <3>1, <3>3
        <4>1. CASE d = c
          BY <4>0, <4>1, <3>6
        <4>2. CASE d # c
          <5>1. call'[d] = call[d] /\ call[d].pc = "insert_info"
            BY <4>2, <3>6, <3>8
          <5> QED
            BY <5>1, <4>0, <3>3, <3>6 DEF BlobInv
        <4> QED
          BY <4>1, <4>2
      <3> QED
        BY <3>7, <3>8 DEF BlobInv
    <2>6. CASE UploadFails(c)
      BY <2>6, <2>o DEF UploadFails, history
    <2>7. CASE InsertInfo(c)
      <3>1. /\ call[c].pc = "insert_info" /\ call[c].blob \in Blobs
            /\ f \in Files /\ Goto(c, "insert_row")
            /\ UNCHANGED blobs /\ UNCHANGED pending /\ UNCHANGED kept
        BY <2>7, <2>c DEF InsertInfo, At, CallTypeInv, PicturePcs
      <3>2. PICK x : call' = [call EXCEPT ![c] = x] /\ x.pc = "insert_row" /\ x.blob = call[c].blob
        BY <3>1, <2>g
      <3>3. CASE UNCHANGED file_info
        BY <3>1, <3>2, <3>3, <2>w, <2>m
      <3>4. CASE file_info' = [file_info EXCEPT ![f] = [count |-> 1, file_id |-> call[c].blob]]
        <4>1. \A g \in Files : file_info'[g].file_id = IF g = f THEN call[c].blob
                                                       ELSE file_info[g].file_id
          BY <3>4, <1>u DEF TablesInv
        <4>2. /\ call[c].blob \in blobs
              /\ \A g \in Files : file_info[g].file_id # call[c].blob
              /\ \A d \in Calls \ {c} : call[d].blob # call[c].blob
          BY <3>1 DEF BlobInv
        <4>3. call'[c] = x /\ \A d \in Calls \ {c} : call'[d] = call[d]
          BY <3>2, <2>d
        <4>4. \A g \in Files : Leaves(g)' <=> Leaves(g)
          BY <3>1 DEF Leaves, DeleteWaits
        <4>5. \A g \in Files : file_info'[g].file_id # None /\ ~Leaves(g)' =>
                 file_info'[g].file_id \in blobs'
          BY <4>1, <4>2, <4>4, <3>1 DEF BlobInv
        <4>6. \A g, h \in Files : g # h /\ file_info'[g].file_id # None =>
                 file_info'[g].file_id # file_info'[h].file_id
          BY <4>1, <4>2 DEF BlobInv
        <4>7. ASSUME NEW d \in Calls, call'[d].pc = "fdfs_delete", NEW g \in Files,
                     file_info'[g].file_id = call'[d].blob
              PROVE  Leaves(g)'
          <5>1. d # c /\ call'[d] = call[d]
            BY <4>3, <4>7, <3>2
          <5>2. g # f
            BY <5>1, <4>1, <4>2, <4>7
          <5> QED
            BY <5>1, <5>2, <4>1, <4>4, <4>7 DEF BlobInv
        <4>8. ASSUME NEW d \in Calls, call'[d].pc = "insert_info"
              PROVE  /\ call'[d].blob \in blobs'
                     /\ \A g \in Files : file_info'[g].file_id # call'[d].blob
                     /\ \A e \in Calls \ {d} : call'[e].blob # call'[d].blob
          <5>1. d # c /\ call'[d] = call[d]
            BY <4>3, <4>8, <3>2
          <5>2. call'[c].blob = call[c].blob
            BY <4>3, <3>2
          <5> QED
            BY <5>1, <5>2, <4>1, <4>2, <4>3, <4>8, <3>1 DEF BlobInv
        <4> QED
          BY <4>5, <4>6, <4>7, <4>8 DEF BlobInv
      <3> QED
        BY <3>3, <3>4, <2>7 DEF InsertInfo
    <2>8. CASE InsertRow(c)
      <3>1. u \in Users /\ f \in Files
        BY <2>8, <2>c DEF InsertRow, At, PicturePcs, CallTypeInv
      <3>2. /\ Stmt("ins_row", u, f, "none", 0) \in Stmts
            /\ Stmt("ins_row", u, f, "none", 0).op # "del_info"
        BY <3>1, StmtsTyped DEF RowOps, Rows, Stmt
      <3> QED
        BY <3>2, <2>3, <2>8 DEF InsertRow
    <2>9. CASE ReadCount(c)
      <3>1. PICK cnt : call' = [call EXCEPT ![c].n = cnt, ![c].pc = "write_count"]
        BY <2>9 DEF ReadCount
      <3> DEFINE x == [call[c] EXCEPT !.n = cnt, !.pc = "write_count"]
      <3>2. call' = [call EXCEPT ![c] = x]
        BY <3>1, <1>u DEF CallsInv
      <3>3. x.pc = "write_count" /\ x.blob = call[c].blob
        BY <2>c DEF CallRecords
      <3>4. UNCHANGED tables /\ UNCHANGED blobs /\ UNCHANGED pending /\ UNCHANGED kept
        BY <2>9 DEF ReadCount, history
      <3> HIDE DEF x
      <3> QED
        BY <3>2, <3>3, <3>4, <2>w, <2>m, <1>i
    <2>10. CASE WriteCount(c)
      <3>1. u \in Users /\ call[c].n \in Nat \cup {NoRow}
        BY <2>10, <2>c DEF WriteCount, At, PicturePcs, CallRecords, CallTypeInv
      <3>2. AddOne(u, call[c].n) \in Stmts /\ AddOne(u, call[c].n).op # "del_info"
        BY <3>1, StmtsTyped DEF AddOne, Stmt
      <3> QED
        BY <3>2, <2>3, <2>10 DEF WriteCount
    <2>11. CASE DeleteCheck(c)
      <3>0. UNCHANGED tables /\ UNCHANGED blobs /\ UNCHANGED kept
        BY <2>11 DEF DeleteCheck, history
      <3>1. CASE Finish(c) /\ UNCHANGED pending
        BY <3>0, <3>1, <2>o
      <3>2. ASSUME NEW x, call' = [call EXCEPT ![c] = x], x.blob = call[c].blob,
                   x.pc \in {"unshare", "uncount"},
                   UNCHANGED pending \/ \E S : Execute(S)
            PROVE  BlobInv'
        <4>1. Waiting \subseteq Waiting'
          BY <3>2, <1>e DEF Waiting
        <4> QED
          BY <4>1, <3>0, <3>2, <2>m, <1>i
      <3>3. CASE /\ Execute({Stmt("del_share", u, f, 0, 0)})
                 /\ call' = [call EXCEPT ![c].pc = "unshare", ![c].row = "shared",
                                         ![c].n = IF f \in zset THEN 1 ELSE 0]
        <4> DEFINE x == [call[c] EXCEPT !.pc = "unshare", !.row = "shared",
                                        !.n = IF f \in zset THEN 1 ELSE 0]
        <4>1. call' = [call EXCEPT ![c] = x]
          BY <3>3, <1>u DEF CallsInv
        <4>2. x.pc = "unshare" /\ x.blob = call[c].blob
          BY <2>c DEF CallRecords
        <4> HIDE DEF x
        <4> QED
          BY <4>1, <4>2, <3>2, <3>3
      <3>4. CASE /\ call' = [call EXCEPT ![c].pc = "uncount", ![c].row = "private"]
                 /\ UNCHANGED pending
        <4> DEFINE x == [call[c] EXCEPT !.pc = "uncount", !.row = "private"]
        <4>1. call' = [call EXCEPT ![c] = x]
          BY <3>4, <1>u DEF CallsInv
        <4>2. x.pc = "uncount" /\ x.blob = call[c].blob
          BY <2>c DEF CallRecords
        <4> HIDE DEF x
        <4> QED
          BY <4>1, <4>2, <3>2, <3>4
      <3> QED
        BY <3>1, <3>3, <3>4, <2>11 DEF DeleteCheck
    <2>12. CASE DeleteUnshare(c) \/ DeleteUncount(c)
      <3>1. UNCHANGED tables /\ UNCHANGED blobs /\ UNCHANGED kept
        BY <2>12 DEF DeleteUnshare, DeleteUncount
      <3>2. UNCHANGED pending \/ \E S : Execute(S)
        BY <2>12 DEF DeleteUnshare, DeleteUncount
      <3>3. Finish(c) \/ Goto(c, "uncount") \/ Goto(c, "unref")
        BY <2>12 DEF DeleteUnshare, DeleteUncount
      <3> QED
        BY <3>1, <3>2, <3>3, <2>o
    <2>13. CASE DeleteUnref(c)
      <3>0. /\ UNCHANGED tables /\ UNCHANGED blobs /\ UNCHANGED kept /\ call[c].pc = "unref"
            /\ f \in Files
        BY <2>13, <2>c DEF DeleteUnref, At, PicturePcs, CallTypeInv
      <3>1. CASE Finish(c) /\ (UNCHANGED pending \/ \E S : Execute(S))
        BY <3>0, <3>1, <2>o
      <3>2. ASSUME NEW info \in {file_info[f], NoInfo}, LastRef(info),
                   Execute({Stmt("del_info", None, f, info.count, 0)}),
                   call' = [call EXCEPT ![c].blob = info.file_id, ![c].pc = "fdfs_delete"]
            PROVE  BlobInv'
        <4> DEFINE x == [call[c] EXCEPT !.blob = info.file_id, !.pc = "fdfs_delete"]
                   s == Stmt("del_info", None, f, info.count, 0)
        <4>1. info = file_info[f] /\ info.file_id \in Blobs
          BY <3>0, <3>2, <1>u DEF LastRef, TablesInv
        <4>2. call' = [call EXCEPT ![c] = x]
          BY <3>2, <1>u DEF CallsInv
        <4>3. x.pc = "fdfs_delete" /\ x.blob = file_info[f].file_id
          BY <4>1, <2>c DEF CallRecords
        <4>4. s \in Waiting' /\ Waiting \subseteq Waiting'
          BY <3>2, <1>u, ExecuteAdds
        <4>5. s.op = "del_info" /\ s.file = f
          BY DEF Stmt
        <4>6. \A g \in Files : g = f \/ Leaves(g) => Leaves(g)'
          <5> HIDE DEF s
          <5>1. \A g \in Files : Leaves(g) => Leaves(g)'
            BY <4>4, <3>0, <1>l
          <5>2. ASSUME NEW g \in Files, g = f PROVE Leaves(g)'
            BY <4>4, <4>5, <5>2 DEF Leaves, DeleteWaits, Waiting
          <5> QED
            BY <5>1, <5>2
        <4>7. file_info' = file_info
          BY <3>0 DEF tables
        <4>8. /\ call'[c].pc = "fdfs_delete" /\ call'[c].blob = file_info[f].file_id
              /\ \A d \in Calls \ {c} : call'[d] = call[d]
          <5> HIDE DEF x
          <5> QED
            BY <4>2, <4>3, <2>d
        <4> HIDE DEF x, s
        <4>9. ASSUME NEW d \in Calls, call'[d].pc = "fdfs_delete", NEW g \in Files,
                     file_info'[g].file_id = call'[d].blob
              PROVE  Leaves(g)'
          <5>1. CASE d = c
            <6>1. file_info[g].file_id = file_info[f].file_id /\ file_info[f].file_id # None
              BY <5>1, <4>7, <4>8, <4>9, <4>1, <1>u
            <6>2. g = f
              BY <6>1, <3>0 DEF BlobInv
            <6> QED
              BY <6>2, <4>6
          <5>2. CASE d # c
            BY <5>2, <4>6, <4>7, <4>8, <4>9 DEF BlobInv
          <5> QED
            BY <5>1, <5>2
        <4>10. ASSUME NEW d \in Calls, call'[d].pc = "insert_info"
               PROVE  /\ call'[d].blob \in blobs'
                      /\ \A g \in Files : file_info'[g].file_id # call'[d].blob
                      /\ \A e \in Calls \ {d} : call'[e].blob # call'[d].blob
          <5>1. d # c /\ call'[d] = call[d]
            BY <4>8, <4>10
          <5> QED
            BY <5>1, <4>7, <4>8, <4>10, <3>0 DEF BlobInv
        <4>11. /\ \A g \in Files : file_info'[g].file_id # None /\ ~Leaves(g)' =>
                     file_info'[g].file_id \in blobs'
               /\ \A g, h \in Files : g # h /\ file_info'[g].file_id # None =>
                     file_info'[g].file_id # file_info'[h].file_id
          BY <4>6, <4>7, <3>0 DEF BlobInv
        <4> QED
          BY <4>9, <4>10, <4>11 DEF BlobInv
      <3> QED
        BY <3>1, <3>2, <2>13 DEF DeleteUnref
    <2>14. CASE FdfsDelete(c)
      <3>1. /\ call[c].pc = "fdfs_delete" /\ blobs \ {call[c].blob} \subseteq blobs'
            /\ UNCHANGED tables /\ UNCHANGED pending /\ UNCHANGED kept /\ Finish(c)
        BY <2>14 DEF FdfsDelete, At, history
      <3>2. file_info' = file_info /\ \A g \in Files : Leaves(g)' <=> Leaves(g)
        BY <3>1 DEF tables, Leaves, DeleteWaits
      <3>3. /\ call'[c].pc = "idle" /\ call'[c].blob = None
            /\ \A d \in Calls \ {c} : call'[d] = call[d]
        BY <3>1, <2>d DEF Finish, Idle
      <3>4. \A g \in Files : file_info'[g].file_id # None /\ ~Leaves(g)' =>
               file_info'[g].file_id \in blobs'
        BY <3>1, <3>2 DEF BlobInv
      <3>5. ASSUME NEW d \in Calls, call'[d].pc = "insert_info"
            PROVE  /\ call'[d].blob \in blobs'
                   /\ \A g \in Files : file_info'[g].file_id # call'[d].blob
                   /\ \A e \in Calls \ {d} : call'[e].blob # call'[d].blob
        <4>1. d # c /\ call'[d] = call[d]
          BY <3>3, <3>5
        <4>2. call[d].blob \in Blobs
          BY <4>1, <3>5, <1>u DEF CallsInv, CallTypeInv
        <4>3. call[d].blob # None /\ call[c].blob # call[d].blob
          BY <4>1, <4>2, <3>5, <1>u DEF BlobInv
        <4> QED
          BY <4>1, <4>3, <3>1, <3>2, <3>3, <3>5 DEF BlobInv
      <3>6. /\ \A g, h \in Files : g # h /\ file_info'[g].file_id # None =>
                  file_info'[g].file_id # file_info'[h].file_id
            /\ \A d \in Calls : call'[d].pc = "fdfs_delete" =>
                  \A g \in Files : file_info'[g].file_id = call'[d].blob => Leaves(g)'
        BY <3>2, <3>3 DEF BlobInv
      <3> QED
        BY <3>4, <3>5, <3>6 DEF BlobInv
    <2>15. CASE ShareCheck(c) \/ ShareCount(c) \/ Cancel(c)
      <3>1. UNCHANGED tables /\ UNCHANGED blobs /\ UNCHANGED kept
        BY <2>15 DEF ShareCheck, ShareCount, Cancel
      <3>2. UNCHANGED pending \/ \E S : Execute(S)
        BY <2>15 DEF ShareCheck, ShareCount, Cancel
      <3>3. Finish(c) \/ Goto(c, "share_count")
        BY <2>15 DEF ShareCheck, ShareCount, Cancel
      <3> QED
        BY <3>1, <3>2, <3>3, <2>o
    <2>16. CASE SaveCheck(c) \/ SaveRef(c) \/ SaveCount(c)
      <3>1. UNCHANGED tables /\ UNCHANGED blobs /\ UNCHANGED kept
        BY <2>16 DEF SaveCheck, SaveRef, SaveCount, history
      <3>2. UNCHANGED pending \/ \E S : Execute(S)
        BY <2>16 DEF SaveCheck, SaveRef, SaveCount
      <3>3. Finish(c) \/ Goto(c, "save_ref") \/ Goto(c, "save_count")
        BY <2>16 DEF SaveCheck, SaveRef, SaveCount
      <3> QED
        BY <3>1, <3>2, <3>3, <2>o
    <2>17. CASE Pv(c) \/ ShareTotal(c)
      <3>1. UNCHANGED tables /\ UNCHANGED blobs /\ UNCHANGED kept /\ Finish(c)
        BY <2>17 DEF Pv, ShareTotal, history
      <3>2. UNCHANGED pending \/ \E S : Execute(S)
        BY <2>17 DEF Pv, ShareTotal
      <3> QED
        BY <3>1, <3>2, <2>o
    <2>18. CASE SharePicture(c) \/ PictureCount(c) \/ CancelPicture(c) \/ PictureUncount(c)
      <3>1. UNCHANGED tables /\ UNCHANGED blobs /\ UNCHANGED kept
        BY <2>18 DEF SharePicture, PictureCount, CancelPicture, PictureUncount, history
      <3>2. UNCHANGED pending \/ \E S : Execute(S)
        BY <2>18 DEF SharePicture, PictureCount, CancelPicture, PictureUncount
      <3>3. Finish(c) \/ Goto(c, "picture_count") \/ Goto(c, "unpicture_count")
        BY <2>18 DEF SharePicture, PictureCount, CancelPicture, PictureUncount
      <3> QED
        BY <3>1, <3>2, <3>3, <2>o
    <2> QED
      BY <1>4, <2>1, <2>2, <2>4, <2>5, <2>6, <2>7, <2>8, <2>9, <2>10, <2>11, <2>12, <2>13,
         <2>14, <2>15, <2>16, <2>17, <2>18 DEF Handle
  <1> QED
    BY <1>1, <1>2, <1>3, <1>4 DEF Next

\* The row of a file names a blob that is stored unless the DELETE of the row is on
\* its way or was refused, for any number of users, files and overlapping requests:
\* no stale count, retry or late write makes the store delete a blob whose row stays.
THEOREM BlobsKept == Spec => []RowHasBlob
  <1>1. TypeInv /\ BlobInv => RowHasBlob
    <2> SUFFICES ASSUME TypeInv, BlobInv, NEW f \in Files, file_info[f] # NoInfo,
                        ~DeleteWaits(f), f \notin kept
                 PROVE  file_info[f].file_id \in blobs
      BY DEF RowHasBlob
    <2>1. file_info[f].file_id \in Blobs /\ None \notin Blobs
      BY StoreAssumption DEF TypeInv, TablesInv, StoreAssumption
    <2> QED
      BY <2>1 DEF BlobInv, Leaves
  <1>2. Spec => []BlobInv
    BY BlobInvInit, BlobInvStep, Types, PTL DEF Spec
  <1> QED
    BY <1>1, <1>2, Types, PTL
=============================================================================
