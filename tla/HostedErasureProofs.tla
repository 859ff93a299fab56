------------------------- MODULE HostedErasureProofs -------------------------
(***************************************************************************)
(* A receipt of an erasure is the truth, for any number of workers, of     *)
(* requests and of deaths, and whoever provisions roots meanwhile.         *)
(***************************************************************************)
EXTENDS HostedErasure, TLAPS

-----------------------------------------------------------------------------
(* The inductive invariant                                                 *)

Roots == {"tenant", "project", "actor"}
JournalRows == [op : Nat, key : ErasureKeys, kind : Kinds, content : BOOLEAN, identity : BOOLEAN]
Stages == {"content", "content_mark", "identity", "identity_mark", "backups", "registry",
           "complete"}
ErasureTasks == {NotWorking} \cup [at : Stages, row : JournalRows]
Questions == {NotAsking} \cup [op : {"journal", "insert"}, key : ErasureKeys, kind : Kinds]

ErasureType ==
  /\ content \in SUBSET {"tenant", "project"}
  /\ ops \in Nat
  /\ journal \in SUBSET JournalRows
  /\ receipts \in SUBSET [op : Nat, key : ErasureKeys, kind : Kinds]
  /\ asking \in [Clients -> Questions]
  /\ working \in [Workers -> ErasureTasks]

\* An operation is about one kind, whoever read its row.
OperationsDrawn ==
  /\ \A j \in journal : j.op \in 1..ops
  /\ \A r \in receipts : r.op \in 1..ops
  /\ \A w \in Workers : working[w] # NotWorking => working[w].row.op \in 1..ops
  /\ \A i, j \in journal : i.op = j.op => i.kind = j.kind
  /\ \A w \in Workers : working[w] # NotWorking =>
       \A j \in journal : j.op = working[w].row.op => j.kind = working[w].row.kind

\* A root is out of a store, unless it was provisioned after the request.
OutOfContent(op, root) == <<op, root>> \in renewed \/ root \notin content
OutOfIdentity(op, root) == <<op, root>> \in renewed \/ root \notin identity
ContentGone(row) == \A root \in Erased(row.kind) : OutOfContent(row.op, root)
IdentityGone(row) == \A root \in Erased(row.kind) : OutOfIdentity(row.op, root)

\* What is marked is gone, in the journal and in the row a worker read.
MarksTrue(row) == /\ row.content => ContentGone(row)
                  /\ row.identity => IdentityGone(row)
WorkTrue(w) ==
  working[w] # NotWorking =>
    /\ MarksTrue(working[w].row)
    /\ working[w].at \in Stages \ {"content"} => ContentGone(working[w].row)
    /\ working[w].at \in {"identity_mark", "backups", "registry", "complete"} =>
         IdentityGone(working[w].row)
ReceiptsTrue == \A r \in receipts : ContentGone(r) /\ IdentityGone(r)

ErasureInv ==
  /\ ErasureType /\ OperationsDrawn
  /\ \A j \in journal : MarksTrue(j)
  /\ \A w \in Workers : WorkTrue(w)
  /\ ReceiptsTrue

-----------------------------------------------------------------------------
(* What is gone stays gone                                                 *)

\* Whatever happens to the stores, no operation so far loses what is gone.
StaysGone ==
  \A op \in 1..ops, root \in Roots :
    /\ OutOfContent(op, root) => OutOfContent(op, root)'
    /\ OutOfIdentity(op, root) => OutOfIdentity(op, root)'

LEMMA ErasedRoots ==
  ASSUME NEW kind \in Kinds
  PROVE  Erased(kind) \subseteq Roots
BY ErasureAssumption DEF Erased, Roots

LEMMA RowStaysGone ==
  ASSUME StaysGone, NEW row, row.op \in 1..ops, row.kind \in Kinds
  PROVE  /\ ContentGone(row) => ContentGone(row)'
         /\ IdentityGone(row) => IdentityGone(row)'
         /\ MarksTrue(row) => MarksTrue(row)'
<1>1. Erased(row.kind) \subseteq Roots
  BY ErasedRoots
<1>2. ContentGone(row) => ContentGone(row)'
  BY <1>1 DEF StaysGone, ContentGone
<1>3. IdentityGone(row) => IdentityGone(row)'
  BY <1>1 DEF StaysGone, IdentityGone
<1> QED BY <1>2, <1>3 DEF MarksTrue

LEMMA StoresKept == ASSUME UNCHANGED storeVars PROVE StaysGone
BY DEF StaysGone, OutOfContent, OutOfIdentity, storeVars

LEMMA StoresShrink ==
  ASSUME content' \subseteq content, identity' \subseteq identity, renewed' = renewed
  PROVE  StaysGone
BY DEF StaysGone, OutOfContent, OutOfIdentity

LEMMA StoresRenew ==
  ASSUME NEW root, Renew(root), content' \subseteq content \cup {root},
         identity' \subseteq identity \cup {root}
  PROVE  StaysGone
BY DEF StaysGone, OutOfContent, OutOfIdentity, Renew

LEMMA WorkFields ==
  ASSUME ErasureType, NEW w \in Workers, working[w] # NotWorking
  PROVE  /\ working[w] \in [at : Stages, row : JournalRows]
         /\ working[w].row \in JournalRows /\ working[w].row.kind \in Kinds
         /\ working[w].row.op \in Nat
BY DEF ErasureType, ErasureTasks, JournalRows

LEMMA WorkType ==
  ASSUME ErasureType, NEW w \in Workers, NEW s \in ErasureTasks, Work(w, s)
  PROVE  working' \in [Workers -> ErasureTasks]
BY DEF ErasureType, Work

\* Everyone else's row stays true when nothing of it changes.
LEMMA RowsStayTrue ==
  ASSUME ErasureInv, StaysGone
  PROVE  /\ \A j \in journal : MarksTrue(j)'
         /\ \A r \in receipts : ContentGone(r)' /\ IdentityGone(r)'
         /\ \A w \in Workers : working'[w] = working[w] => WorkTrue(w)'
<1>1. \A j \in journal : j.op \in 1..ops /\ j.kind \in Kinds
  BY DEF ErasureInv, ErasureType, OperationsDrawn, JournalRows
<1>2. \A r \in receipts : r.op \in 1..ops /\ r.kind \in Kinds
  BY DEF ErasureInv, ErasureType, OperationsDrawn
<1>3. ASSUME NEW w \in Workers, working'[w] = working[w] PROVE WorkTrue(w)'
  <2>1. CASE working[w] = NotWorking
    BY <1>3, <2>1 DEF WorkTrue
  <2>2. CASE working[w] # NotWorking
    <3>1. working[w].row.op \in 1..ops /\ working[w].row.kind \in Kinds
      BY <2>2, WorkFields DEF ErasureInv, OperationsDrawn
    <3>2. WorkTrue(w)
      BY DEF ErasureInv
    <3> HIDE DEF MarksTrue, ContentGone, IdentityGone
    <3> QED BY <1>3, <2>2, <3>1, <3>2, RowStaysGone DEF WorkTrue
  <2> QED BY <2>1, <2>2
<1> QED BY <1>1, <1>2, <1>3, RowStaysGone DEF ErasureInv, ReceiptsTrue

-----------------------------------------------------------------------------
(* Requests, stores and backups                                            *)

LEMMA QuietStep ==
  ASSUME ErasureInv, StaysGone, UNCHANGED <<journal, receipts, working, ops>>,
         asking' \in [Clients -> Questions], content' \in SUBSET {"tenant", "project"}
  PROVE  ErasureInv'
<1>1. ErasureType' /\ OperationsDrawn'
  BY DEF ErasureInv, ErasureType, OperationsDrawn
<1>2. \A j \in journal' : MarksTrue(j)'
  BY RowsStayTrue
<1>3. \A w \in Workers : WorkTrue(w)'
  BY RowsStayTrue
<1>4. ReceiptsTrue'
  BY RowsStayTrue DEF ReceiptsTrue
<1> QED BY <1>1, <1>2, <1>3, <1>4 DEF ErasureInv

LEMMA AskKeeps ==
  ASSUME ErasureInv, NEW c \in Clients,
         \/ \E key \in ErasureKeys, kind \in Kinds : AskReceipt(c, key, kind)
         \/ AskJournal(c)
  PROVE  ErasureInv'
<1>1. PICK s \in Questions : Ask(c, s)
  <2>1. CASE \E key \in ErasureKeys, kind \in Kinds : AskReceipt(c, key, kind)
    <3>1. PICK key \in ErasureKeys, kind \in Kinds : AskReceipt(c, key, kind)
      BY <2>1
    <3>2. [op |-> "journal", key |-> key, kind |-> kind] \in Questions
      BY DEF Questions
    <3> QED BY <3>1, <3>2 DEF AskReceipt
  <2>2. CASE AskJournal(c)
    <3>1. asking[c] \in Questions /\ asking[c].op = "journal"
      BY <2>2 DEF AskJournal, ErasureInv, ErasureType
    <3>2. [asking[c] EXCEPT !.op = "insert"] \in Questions /\ NotAsking \in Questions
      BY <3>1 DEF Questions, NotAsking
    <3> QED BY <2>2, <3>2 DEF AskJournal
  <2> QED BY <2>1, <2>2
<1>2. asking' \in [Clients -> Questions]
  BY <1>1 DEF Ask, ErasureInv, ErasureType
<1>3. UNCHANGED <<storeVars, journal, receipts, working, ops>>
  BY DEF AskReceipt, AskJournal
<1>4. content' \in SUBSET {"tenant", "project"}
  BY <1>3 DEF ErasureInv, ErasureType, storeVars
<1> QED BY <1>2, <1>3, <1>4, StoresKept, QuietStep

\* A new operation is about nothing that is marked yet.
LEMMA AskInsertKeeps ==
  ASSUME ErasureInv, NEW c \in Clients, AskInsert(c)
  PROVE  ErasureInv'
<1> DEFINE row == [op |-> ops + 1, key |-> asking[c].key, kind |-> asking[c].kind,
                   content |-> FALSE, identity |-> FALSE]
<1>1. asking[c] \in Questions /\ asking[c].op = "insert"
  BY DEF AskInsert, ErasureInv, ErasureType
<1>2. asking' \in [Clients -> Questions]
  <2>1. NotAsking \in Questions
    BY DEF Questions
  <2> QED BY <2>1 DEF AskInsert, Ask, ErasureInv, ErasureType
<1>3. UNCHANGED <<storeVars, receipts, working>> /\ content' \in SUBSET {"tenant", "project"}
  BY DEF AskInsert, storeVars, ErasureInv, ErasureType
<1>4. CASE UNCHANGED <<journal, ops>>
  BY <1>2, <1>3, <1>4, StoresKept, QuietStep
<1>5. CASE journal' = journal \cup {row} /\ ops' = ops + 1
  <2>1. ops \in Nat /\ ops + 1 \in Nat /\ ops + 1 \notin 1..ops
        /\ 1..ops \subseteq 1..(ops + 1) /\ ops + 1 \in 1..(ops + 1)
    BY DEF ErasureInv, ErasureType
  <2>2. PICK new : /\ journal' = journal \cup {new} /\ new \in JournalRows
                   /\ new.op = ops + 1 /\ MarksTrue(new)'
    <3>1. PICK new : new = row
      OBVIOUS
    <3>2. new \in JournalRows /\ new.op = ops + 1 /\ ~new.content /\ ~new.identity
      BY <1>1, <2>1, <3>1 DEF Questions, NotAsking, JournalRows
    <3> HIDE DEF row
    <3> QED BY <1>5, <3>1, <3>2 DEF MarksTrue
  <2> HIDE DEF row
  <2>3. ErasureType'
    BY <1>2, <1>3, <1>5, <2>1, <2>2 DEF ErasureInv, ErasureType
  <2>4. OperationsDrawn'
    BY <1>3, <1>5, <2>1, <2>2 DEF ErasureInv, OperationsDrawn
  <2>5. \A j \in journal : MarksTrue(j)'
    BY <1>3, StoresKept, RowsStayTrue
  <2>6. \A w \in Workers : WorkTrue(w)'
    BY <1>3, StoresKept, RowsStayTrue
  <2>7. ReceiptsTrue'
    BY <1>3, StoresKept, RowsStayTrue DEF ReceiptsTrue
  <2> QED BY <1>5, <2>2, <2>3, <2>4, <2>5, <2>6, <2>7 DEF ErasureInv
<1> QED BY <1>4, <1>5 DEF AskInsert

LEMMA ProvisionKeeps ==
  ASSUME ErasureInv, NEW root \in Roots, ProvisionContent(root) \/ ProvisionIdentity(root)
  PROVE  ErasureInv'
<1>1. /\ UNCHANGED <<journal, receipts, working, ops, asking>>
      /\ content' \subseteq content \cup {root} /\ identity' \subseteq identity \cup {root}
      /\ Renew(root)
  BY DEF ProvisionContent, ProvisionIdentity
<1>2. content' \in SUBSET {"tenant", "project"} /\ asking' \in [Clients -> Questions]
  BY DEF ProvisionContent, ProvisionIdentity, ErasureInv, ErasureType
<1> QED BY <1>1, <1>2, StoresRenew, QuietStep

-----------------------------------------------------------------------------
(* The stages of an execution                                              *)

LEMMA WorkerMoves ==
  ASSUME ErasureInv, StaysGone, NEW w \in Workers, NEW s \in ErasureTasks, Work(w, s),
         UNCHANGED <<journal, receipts, ops, asking>>,
         content' \in SUBSET {"tenant", "project"},
         s # NotWorking => /\ s.row.op \in 1..ops
                           /\ \A j \in journal : j.op = s.row.op => j.kind = s.row.kind,
         WorkTrue(w)'
  PROVE  ErasureInv'
<1>1. working' \in [Workers -> ErasureTasks]
  BY WorkType DEF ErasureInv
<1>2. working'[w] = s /\ \A v \in Workers \ {w} : working'[v] = working[v]
  BY DEF Work, ErasureInv, ErasureType
<1>3. ErasureType'
  BY <1>1 DEF ErasureInv, ErasureType
<1>4. OperationsDrawn'
  BY <1>2 DEF ErasureInv, OperationsDrawn
<1>5. \A v \in Workers : WorkTrue(v)'
  BY <1>2, RowsStayTrue
<1>6. (\A j \in journal' : MarksTrue(j)') /\ ReceiptsTrue'
  BY RowsStayTrue DEF ReceiptsTrue
<1> QED BY <1>3, <1>4, <1>5, <1>6 DEF ErasureInv

LEMMA WorkStartKeeps ==
  ASSUME ErasureInv, NEW w \in Workers, NEW row \in journal, WorkStart(w, row)
  PROVE  ErasureInv'
<1> DEFINE s == [at |-> Beginning(row), row |-> row]
<1>1. UNCHANGED <<storeVars, journal, receipts, ops, asking>> /\ Work(w, s)
      /\ content' \in SUBSET {"tenant", "project"}
  BY DEF WorkStart, storeVars, ErasureInv, ErasureType
<1>2. /\ row \in JournalRows /\ MarksTrue(row)' /\ row.op \in 1..ops
      /\ \A j \in journal : j.op = row.op => j.kind = row.kind
  BY <1>1, StoresKept, RowsStayTrue DEF ErasureInv, ErasureType, OperationsDrawn
<1>3. /\ s \in ErasureTasks /\ s.row = row
      /\ s.at \in {"content", "identity", "backups"}
      /\ s.at # "content" => row.content
      /\ s.at = "backups" => row.identity
  BY <1>2 DEF ErasureTasks, Beginning, AfterContent, Stages
<1> HIDE DEF s
<1>4. working'[w] = s
  BY <1>1 DEF Work, ErasureInv, ErasureType
<1>5. WorkTrue(w)'
  BY <1>2, <1>3, <1>4 DEF WorkTrue, MarksTrue
<1> QED BY <1>1, <1>2, <1>3, <1>5, StoresKept, WorkerMoves

\* The row goes on with its worker.
LEMMA Onward ==
  ASSUME ErasureInv, StaysGone, NEW w \in Workers, working[w] # NotWorking, NEW a \in Stages,
         Work(w, [working[w] EXCEPT !.at = a])
  PROVE  /\ [working[w] EXCEPT !.at = a] \in ErasureTasks
         /\ [working[w] EXCEPT !.at = a].row = working[w].row
         /\ working'[w].at = a /\ working'[w].row = working[w].row
         /\ working[w].row.op \in 1..ops /\ working[w].row.kind \in Kinds
         /\ \A j \in journal : j.op = working[w].row.op => j.kind = working[w].row.kind
         /\ MarksTrue(working[w].row)'
<1>1. working[w] \in [at : Stages, row : JournalRows] /\ working[w].row.kind \in Kinds
  BY WorkFields DEF ErasureInv
<1>2. /\ [working[w] EXCEPT !.at = a] \in [at : Stages, row : JournalRows]
      /\ [working[w] EXCEPT !.at = a].row = working[w].row
      /\ [working[w] EXCEPT !.at = a].at = a
  BY <1>1
<1>3. working'[w] = [working[w] EXCEPT !.at = a]
  BY DEF Work, ErasureInv, ErasureType
<1>4. /\ working[w].row.op \in 1..ops
      /\ \A j \in journal : j.op = working[w].row.op => j.kind = working[w].row.kind
      /\ MarksTrue(working[w].row)
  BY DEF ErasureInv, OperationsDrawn, WorkTrue
<1>5. MarksTrue(working[w].row)'
  <2>1. PICK row : row = working[w].row
    OBVIOUS
  <2>2. MarksTrue(row)'
    BY <1>1, <1>4, <2>1, RowStaysGone
  <2>3. working'[w].row = row
    BY <1>2, <1>3, <2>1
  <2> QED BY <2>2, <2>3 DEF MarksTrue, ContentGone, IdentityGone, OutOfContent, OutOfIdentity
<1> QED BY <1>1, <1>2, <1>3, <1>4, <1>5 DEF ErasureTasks

LEMMA StageTrue ==
  ASSUME ErasureInv, StaysGone, NEW w \in Workers, working[w] # NotWorking,
         NEW a \in Stages, Work(w, [working[w] EXCEPT !.at = a]),
         NEW row, row = working[w].row, ContentGone(row)',
         a \in {"identity_mark", "backups", "registry", "complete"} => IdentityGone(row)'
  PROVE  WorkTrue(w)'
<1>1. /\ working'[w].at = a /\ working'[w].row = row /\ MarksTrue(working[w].row)'
  BY Onward
<1>2. ContentGone(working[w].row)'
  BY <1>1 DEF ContentGone, OutOfContent
<1>3. a \in {"identity_mark", "backups", "registry", "complete"} =>
        IdentityGone(working[w].row)'
  BY <1>1 DEF IdentityGone, OutOfIdentity
<1> QED BY <1>1, <1>2, <1>3 DEF WorkTrue

LEMMA StageMoves ==
  ASSUME ErasureInv, StaysGone, NEW w \in Workers, working[w] # NotWorking,
         NEW a \in Stages, Work(w, [working[w] EXCEPT !.at = a]),
         UNCHANGED <<journal, receipts, ops, asking>>,
         content' \in SUBSET {"tenant", "project"},
         NEW row, row = working[w].row, ContentGone(row)',
         a \in {"identity_mark", "backups", "registry", "complete"} => IdentityGone(row)'
  PROVE  ErasureInv'
<1> DEFINE s == [working[w] EXCEPT !.at = a]
<1>1. s \in ErasureTasks /\ s.row = working[w].row
  BY Onward
<1>2. /\ working[w].row.op \in 1..ops
      /\ \A j \in journal : j.op = working[w].row.op => j.kind = working[w].row.kind
  BY Onward
<1>3. WorkTrue(w)'
  BY StageTrue
<1>4. Work(w, s)
  OBVIOUS
<1> HIDE DEF s
<1> QED BY <1>1, <1>2, <1>3, <1>4, WorkerMoves

\* The row a worker has, and what its stage says of it.
LEMMA RowOf ==
  ASSUME ErasureInv, NEW w \in Workers, working[w] # NotWorking
  PROVE  \E row \in JournalRows :
           /\ row = working[w].row /\ row.op \in 1..ops /\ row.kind \in Kinds
           /\ \A j \in journal : j.op = row.op => j.kind = row.kind
           /\ MarksTrue(row)
           /\ working[w].at \in Stages \ {"content"} => ContentGone(row)
           /\ working[w].at \in {"identity_mark", "backups", "registry", "complete"} =>
                IdentityGone(row)
<1>1. /\ working[w].row \in JournalRows /\ working[w].row.op \in 1..ops
      /\ working[w].row.kind \in Kinds
      /\ \A j \in journal : j.op = working[w].row.op => j.kind = working[w].row.kind
  BY WorkFields DEF ErasureInv, OperationsDrawn
<1>2. WorkTrue(w)
  BY DEF ErasureInv
<1> HIDE DEF MarksTrue, ContentGone, IdentityGone
<1> QED BY <1>1, <1>2 DEF WorkTrue

LEMMA ContentStageKeeps ==
  ASSUME ErasureInv, NEW w \in Workers, ContentStage(w)
  PROVE  ErasureInv'
<1>1. /\ working[w] # NotWorking /\ "content_mark" \in Stages
      /\ Work(w, [working[w] EXCEPT !.at = "content_mark"])
      /\ UNCHANGED <<journal, receipts, ops, asking>>
  BY DEF ContentStage, NotWorking, Stages
<1>2. PICK row \in JournalRows : row = working[w].row /\ row.op \in 1..ops /\ row.kind \in Kinds
  BY <1>1, RowOf
<1>3. /\ content' = IF row.kind = "actor" THEN content ELSE content \ Erased(row.kind)
      /\ identity' = identity /\ renewed' = renewed
  BY <1>2 DEF ContentStage
<1>4. content \in SUBSET {"tenant", "project"} /\ content' \in SUBSET {"tenant", "project"}
  BY <1>3 DEF ErasureInv, ErasureType
<1>5. ContentGone(row)'
  BY <1>3, <1>4 DEF ContentGone, OutOfContent, Erased
<1>6. StaysGone
  BY <1>3, StoresShrink
<1> QED BY <1>1, <1>2, <1>4, <1>5, <1>6, StageMoves

LEMMA IdentityStageKeeps ==
  ASSUME ErasureInv, NEW w \in Workers, IdentityStage(w)
  PROVE  ErasureInv'
<1>1. /\ working[w] # NotWorking /\ "identity_mark" \in Stages
      /\ working[w].at \in Stages \ {"content"}
      /\ Work(w, [working[w] EXCEPT !.at = "identity_mark"])
      /\ UNCHANGED <<journal, receipts, ops, asking>>
      /\ content' \in SUBSET {"tenant", "project"}
  BY DEF IdentityStage, NotWorking, Stages, ErasureInv, ErasureType
<1>2. PICK row \in JournalRows :
        row = working[w].row /\ row.op \in 1..ops /\ row.kind \in Kinds /\ ContentGone(row)
  BY <1>1, RowOf
<1>3. identity' = identity \ Erased(row.kind) /\ content' = content /\ renewed' = renewed
  BY <1>2 DEF IdentityStage
<1>4. IdentityGone(row)'
  BY <1>3 DEF IdentityGone, OutOfIdentity
<1>5. StaysGone
  BY <1>3, StoresShrink
<1>6. ContentGone(row)'
  BY <1>2, <1>5, RowStaysGone
<1> QED BY <1>1, <1>2, <1>4, <1>5, <1>6, StageMoves

\* What a mark says is true of every row of its operation.
LEMMA MarkKeeps ==
  ASSUME ErasureInv, NEW w \in Workers, working[w] # NotWorking, NEW a \in Stages,
         Work(w, [working[w] EXCEPT !.at = a]), UNCHANGED <<storeVars, receipts, ops, asking>>,
         NEW row \in JournalRows, row = working[w].row, row.op \in 1..ops, row.kind \in Kinds,
         \A j \in journal : j.op = row.op => j.kind = row.kind,
         ContentGone(row),
         a \in {"identity_mark", "backups", "registry", "complete"} => IdentityGone(row),
         NEW field \in {"content", "identity"}, Mark(row.op, field),
         field = "identity" => IdentityGone(row)
  PROVE  ErasureInv'
<1>1. ASSUME NEW j \in journal'
      PROVE  \E i \in journal : /\ j \in JournalRows /\ j.op = i.op /\ j.kind = i.kind
                                /\ MarksTrue(j)
  <2>1. PICK i \in journal : j = IF i.op = row.op THEN [i EXCEPT ![field] = TRUE] ELSE i
    BY DEF Mark
  <2>2. i \in JournalRows /\ MarksTrue(i)
    BY DEF ErasureInv, ErasureType
  <2>3. CASE i.op # row.op
    BY <2>1, <2>2, <2>3
  <2>4. CASE i.op = row.op /\ field = "content"
    <3>1. j = [i EXCEPT !.content = TRUE]
      BY <2>1, <2>4
    <3>2. /\ j \in JournalRows /\ j.op = i.op /\ j.kind = i.kind /\ j.content
          /\ j.identity = i.identity
      BY <2>2, <3>1 DEF JournalRows
    <3>3. ContentGone(j) /\ (IdentityGone(i) => IdentityGone(j))
      BY <2>4, <3>2 DEF ContentGone, IdentityGone
    <3> QED BY <2>2, <3>2, <3>3 DEF MarksTrue
  <2>5. CASE i.op = row.op /\ field = "identity"
    <3>1. j = [i EXCEPT !.identity = TRUE]
      BY <2>1, <2>5
    <3>2. /\ j \in JournalRows /\ j.op = i.op /\ j.kind = i.kind /\ j.identity
          /\ j.content = i.content
      BY <2>2, <3>1 DEF JournalRows
    <3>3. IdentityGone(j) /\ (ContentGone(i) => ContentGone(j))
      BY <2>5, <3>2 DEF ContentGone, IdentityGone
    <3> QED BY <2>2, <3>2, <3>3 DEF MarksTrue
  <2> QED BY <2>3, <2>4, <2>5
<1>2. StaysGone
  BY StoresKept
<1>3. /\ [working[w] EXCEPT !.at = a] \in ErasureTasks
      /\ working'[w].at = a /\ working'[w].row = row
      /\ \A v \in Workers \ {w} : working'[v] = working[v]
  BY <1>2, Onward DEF Work, ErasureInv, ErasureType
<1>4. ErasureType'
  <2>1. working' \in [Workers -> ErasureTasks]
    BY <1>3, WorkType DEF ErasureInv
  <2> QED BY <1>1, <2>1 DEF ErasureInv, ErasureType, storeVars
<1>5. OperationsDrawn'
  <2>1. \A j \in journal' : j.op \in 1..ops
    BY <1>1 DEF ErasureInv, OperationsDrawn
  <2>2. \A i, j \in journal' : i.op = j.op => i.kind = j.kind
    BY <1>1 DEF ErasureInv, OperationsDrawn
  <2>3. ASSUME NEW v \in Workers, working'[v] # NotWorking
        PROVE  /\ working'[v].row.op \in 1..ops
               /\ \A j \in journal' : j.op = working'[v].row.op => j.kind = working'[v].row.kind
    <3>1. working'[v].row = working[v].row /\ working[v] # NotWorking
      BY <1>3, <2>3
    <3>2. /\ working[v].row.op \in 1..ops
          /\ \A j \in journal : j.op = working[v].row.op => j.kind = working[v].row.kind
      BY <3>1 DEF ErasureInv, OperationsDrawn
    <3> QED BY <1>1, <3>1, <3>2
  <2> QED BY <2>1, <2>2, <2>3 DEF ErasureInv, OperationsDrawn
<1>6. \A j \in journal' : MarksTrue(j)'
  <2> SUFFICES ASSUME NEW j \in journal' PROVE MarksTrue(j)'
    OBVIOUS
  <2>1. MarksTrue(j)
    BY <1>1
  <2> QED BY <2>1 DEF MarksTrue, ContentGone, IdentityGone, OutOfContent, OutOfIdentity, storeVars
<1>7. ContentGone(row)' /\ (IdentityGone(row) => IdentityGone(row)')
  BY <1>2, RowStaysGone
<1>8. WorkTrue(w)'
  BY <1>2, <1>7, StageTrue
<1>9. (\A v \in Workers \ {w} : WorkTrue(v)') /\ ReceiptsTrue'
  BY <1>2, <1>3, RowsStayTrue DEF ReceiptsTrue
<1> QED BY <1>4, <1>5, <1>6, <1>8, <1>9 DEF ErasureInv

LEMMA ContentMarkKeeps ==
  ASSUME ErasureInv, NEW w \in Workers, ContentMark(w)
  PROVE  ErasureInv'
<1>1. /\ working[w] # NotWorking /\ working[w].at \in Stages \ {"content"}
      /\ UNCHANGED <<storeVars, receipts, ops, asking>>
  BY DEF ContentMark, NotWorking, Stages
<1>2. PICK row \in JournalRows :
        /\ row = working[w].row /\ row.op \in 1..ops /\ row.kind \in Kinds
        /\ \A j \in journal : j.op = row.op => j.kind = row.kind
        /\ MarksTrue(row) /\ ContentGone(row)
  BY <1>1, RowOf
<1>3. PICK a \in {"backups", "identity"} :
        /\ Work(w, [working[w] EXCEPT !.at = a]) /\ Mark(row.op, "content")
        /\ a = "backups" => row.identity
  BY <1>2 DEF ContentMark, AfterContent
<1>4. a \in Stages /\ (a \in {"identity_mark", "backups", "registry", "complete"}
                         => IdentityGone(row))
  BY <1>2, <1>3 DEF Stages, MarksTrue
<1> QED BY <1>1, <1>2, <1>3, <1>4, MarkKeeps

LEMMA IdentityMarkKeeps ==
  ASSUME ErasureInv, NEW w \in Workers, IdentityMark(w)
  PROVE  ErasureInv'
<1>1. /\ working[w] # NotWorking /\ working[w].at = "identity_mark" /\ "backups" \in Stages
      /\ working[w].at \in Stages \ {"content"}
      /\ UNCHANGED <<storeVars, receipts, ops, asking>>
  BY DEF IdentityMark, NotWorking, Stages
<1>2. PICK row \in JournalRows :
        /\ row = working[w].row /\ row.op \in 1..ops /\ row.kind \in Kinds
        /\ \A j \in journal : j.op = row.op => j.kind = row.kind
        /\ ContentGone(row) /\ IdentityGone(row)
  BY <1>1, RowOf
<1>3. Work(w, [working[w] EXCEPT !.at = "backups"]) /\ Mark(row.op, "identity")
  BY <1>2 DEF IdentityMark
<1> QED BY <1>1, <1>2, <1>3, MarkKeeps

\* A worker that stops has nothing to say.
LEMMA StopKeeps ==
  ASSUME ErasureInv, NEW w \in Workers, Work(w, NotWorking),
         UNCHANGED <<storeVars, journal, receipts, ops, asking>>
  PROVE  ErasureInv'
<1>1. NotWorking \in ErasureTasks
  BY DEF ErasureTasks
<1>2. working'[w] = NotWorking /\ content' \in SUBSET {"tenant", "project"}
  BY DEF Work, ErasureInv, ErasureType, storeVars
<1>3. WorkTrue(w)'
  BY <1>2 DEF WorkTrue
<1> QED BY <1>1, <1>2, <1>3, StoresKept, WorkerMoves

LEMMA BackupStageKeeps ==
  ASSUME ErasureInv, NEW w \in Workers, BackupsCheck(w) \/ RegistryDelete(w)
  PROVE  ErasureInv'
<1>1. /\ working[w] # NotWorking /\ working[w].at \in {"backups", "registry"}
      /\ working[w].at \in Stages \ {"content"} /\ {"complete", "registry"} \subseteq Stages
      /\ UNCHANGED <<storeVars, journal, receipts, ops, asking>>
      /\ content' \in SUBSET {"tenant", "project"}
  BY DEF BackupsCheck, RegistryDelete, NotWorking, Stages, storeVars, ErasureInv, ErasureType
<1>2. PICK row \in JournalRows :
        /\ row = working[w].row /\ row.op \in 1..ops /\ row.kind \in Kinds
        /\ ContentGone(row) /\ IdentityGone(row)
  BY <1>1, RowOf
<1>3. StaysGone
  BY <1>1, StoresKept
<1>4. ContentGone(row)' /\ IdentityGone(row)'
  BY <1>2, <1>3, RowStaysGone
<1>5. \/ \E a \in {"complete", "registry"} : Work(w, [working[w] EXCEPT !.at = a])
      \/ Work(w, NotWorking)
  BY DEF BackupsCheck, RegistryDelete
<1>6. CASE \E a \in {"complete", "registry"} : Work(w, [working[w] EXCEPT !.at = a])
  BY <1>1, <1>2, <1>3, <1>4, <1>6, StageMoves
<1> QED BY <1>1, <1>5, <1>6, StopKeeps

\* The receipt is of an operation both of whose stages are done.
LEMMA CompleteKeeps ==
  ASSUME ErasureInv, NEW w \in Workers, Complete(w)
  PROVE  ErasureInv'
<1>1. /\ working[w] # NotWorking /\ working[w].at = "complete"
      /\ working[w].at \in Stages \ {"content"}
      /\ UNCHANGED <<storeVars, ops, asking>> /\ Work(w, NotWorking)
      /\ content' \in SUBSET {"tenant", "project"}
  BY DEF Complete, NotWorking, Stages, storeVars, ErasureInv, ErasureType
<1>2. PICK row \in JournalRows :
        /\ row = working[w].row /\ row.op \in 1..ops /\ row.kind \in Kinds
        /\ ContentGone(row) /\ IdentityGone(row)
  BY <1>1, RowOf
<1> DEFINE receipt == [op |-> row.op, key |-> row.key, kind |-> row.kind]
<1>3. CASE UNCHANGED <<journal, receipts>>
  BY <1>1, <1>3, StopKeeps
<1>4. CASE /\ receipts' = receipts \cup {receipt}
           /\ journal' = {j \in journal : j.op # row.op}
  <2>1. /\ receipt \in [op : Nat, key : ErasureKeys, kind : Kinds]
        /\ receipt.op = row.op /\ receipt.kind = row.kind
    BY DEF JournalRows
  <2> HIDE DEF receipt
  <2>2. /\ working'[w] = NotWorking /\ working' \in [Workers -> ErasureTasks]
        /\ \A v \in Workers \ {w} : working'[v] = working[v]
    <3>1. NotWorking \in ErasureTasks
      BY DEF ErasureTasks
    <3> QED BY <1>1, <3>1 DEF Work, ErasureInv, ErasureType
  <2>3. ErasureType'
    BY <1>1, <1>4, <2>1, <2>2 DEF ErasureInv, ErasureType
  <2>4. OperationsDrawn'
    BY <1>1, <1>2, <1>4, <2>1, <2>2 DEF ErasureInv, OperationsDrawn
  <2>5. StaysGone
    BY <1>1, StoresKept
  <2>6. \A j \in journal' : MarksTrue(j)'
    BY <1>4, <2>5, RowsStayTrue
  <2>7. \A v \in Workers : WorkTrue(v)'
    <3>1. WorkTrue(w)'
      BY <2>2 DEF WorkTrue
    <3> QED BY <2>2, <2>5, <3>1, RowsStayTrue
  <2>8. ReceiptsTrue'
    <3>1. ContentGone(receipt) /\ IdentityGone(receipt)
      BY <1>2, <2>1 DEF ContentGone, IdentityGone
    <3>2. \A r \in receipts' : ContentGone(r) /\ IdentityGone(r)
      BY <1>4, <3>1 DEF ErasureInv, ReceiptsTrue
    <3> QED BY <1>1, <3>2 DEF ReceiptsTrue, ContentGone, IdentityGone, OutOfContent,
                              OutOfIdentity, storeVars
  <2> QED BY <2>3, <2>4, <2>6, <2>7, <2>8 DEF ErasureInv
<1> QED BY <1>2, <1>3, <1>4 DEF Complete

-----------------------------------------------------------------------------
(* The theorems                                                            *)

LEMMA ErasureStart == ErasureInit => ErasureInv
<1> SUFFICES ASSUME ErasureInit PROVE ErasureInv
  OBVIOUS
<1>1. ErasureType
  BY DEF ErasureInit, ErasureType, Questions, ErasureTasks
<1>2. OperationsDrawn /\ ReceiptsTrue /\ (\A j \in journal : MarksTrue(j))
  BY DEF ErasureInit, OperationsDrawn, ReceiptsTrue
<1>3. \A w \in Workers : WorkTrue(w)
  BY DEF ErasureInit, WorkTrue
<1> QED BY <1>1, <1>2, <1>3 DEF ErasureInv

LEMMA ErasureStep == ErasureInv /\ [ErasureNext]_erasureVars => ErasureInv'
<1> SUFFICES ASSUME ErasureInv, [ErasureNext]_erasureVars PROVE ErasureInv'
  OBVIOUS
<1>1. ASSUME NEW c \in Clients,
             \/ \E key \in ErasureKeys, kind \in Kinds : AskReceipt(c, key, kind)
             \/ AskJournal(c) \/ AskInsert(c)
      PROVE  ErasureInv'
  BY <1>1, AskKeeps, AskInsertKeeps
<1>2. ASSUME NEW w \in Workers, WorkerStep(w) PROVE ErasureInv'
  BY <1>2, WorkStartKeeps, ContentStageKeeps, ContentMarkKeeps, IdentityStageKeeps,
     IdentityMarkKeeps, BackupStageKeeps, CompleteKeeps DEF WorkerStep, Proceed
<1>3. ASSUME NEW w \in Workers, WorkerDies(w) PROVE ErasureInv'
  BY <1>3, StopKeeps DEF WorkerDies
<1>4. ASSUME NEW root \in Roots, ProvisionContent(root) \/ ProvisionIdentity(root)
      PROVE  ErasureInv'
  BY <1>4, ProvisionKeeps
<1>5. ASSUME UNCHANGED <<storeVars, journal, receipts, asking, working, ops>> PROVE ErasureInv'
  <2>1. asking' \in [Clients -> Questions] /\ content' \in SUBSET {"tenant", "project"}
    BY <1>5 DEF ErasureInv, ErasureType, storeVars
  <2> QED BY <1>5, <2>1, StoresKept, QuietStep
<1>6. ASSUME NEW b \in BackupIds, RegisterBackup(b) \/ ProviderDeletes(b) \/ MarkBackupDeleted(b)
      PROVE  ErasureInv'
  BY <1>5, <1>6 DEF RegisterBackup, ProviderDeletes, MarkBackupDeleted
<1>7. CASE UNCHANGED erasureVars
  BY <1>5, <1>7 DEF erasureVars, storeVars
<1> QED BY <1>1, <1>2, <1>3, <1>4, <1>6, <1>7 DEF ErasureNext, Roots

THEOREM ErasureInvariant == ErasureSpec => []ErasureInv
BY ErasureStart, ErasureStep, PTL DEF ErasureSpec

\* What a receipt of execute_erasure stands for is in neither store, wherever
\* workers died and however many executed it at once, unless it was
\* provisioned after the request (hosted_governance.py).
THEOREM ReceiptsAreTrue == ErasureSpec => []ReceiptMeansErased
<1>1. ErasureInv => ReceiptMeansErased
  BY DEF ErasureInv, ReceiptsTrue, ContentGone, IdentityGone, OutOfContent, OutOfIdentity,
         ReceiptMeansErased
<1> QED BY <1>1, ErasureInvariant, PTL

-----------------------------------------------------------------------------
(* Operations and their receipts                                           *)

\* An operation has one key, whoever read its row.
KeysDrawn ==
  /\ \A i, j \in journal : i.op = j.op => i.key = j.key
  /\ \A w \in Workers : working[w] # NotWorking =>
       \A j \in journal : j.op = working[w].row.op => j.key = working[w].row.key

AccountInv == KeysDrawn /\ OperationsAccounted

\* The row of an operation but for its marks.
SameRequest(i, j) == i.op = j.op /\ i.key = j.key /\ i.kind = j.kind

\* What a step may do to the journal and the receipts: nothing ...
LEMMA AccountsSame ==
  ASSUME AccountInv, UNCHANGED <<journal, receipts, ops>>,
         \A w \in Workers : working'[w] # NotWorking =>
           \/ working[w] # NotWorking /\ working'[w].row = working[w].row
           \/ working'[w].row \in journal
  PROVE  AccountInv'
<1>1. OperationsAccounted'
  BY DEF AccountInv, OperationsAccounted
<1>2. KeysDrawn'
  BY DEF AccountInv, KeysDrawn
<1> QED BY <1>1, <1>2 DEF AccountInv

\* ... mark the rows of an operation ...
LEMMA MarkAccounts ==
  ASSUME ErasureInv, AccountInv, NEW op, NEW field \in {"content", "identity"},
         Mark(op, field), UNCHANGED <<receipts, ops>>,
         \A w \in Workers : working'[w] # NotWorking =>
           working[w] # NotWorking /\ working'[w].row = working[w].row
  PROVE  /\ AccountInv'
         /\ \A j \in journal : \E k \in journal' :
              /\ SameRequest(k, j)
              /\ j.content => k.content
              /\ j.identity => k.identity
<1> DEFINE Marked(j) == IF j.op = op THEN [j EXCEPT ![field] = TRUE] ELSE j
<1>1. journal' = {Marked(j) : j \in journal}
  BY DEF Mark
<1>2. \A j \in journal : /\ SameRequest(Marked(j), j)
                         /\ j.content => Marked(j).content
                         /\ j.identity => Marked(j).identity
  <2> SUFFICES ASSUME NEW j \in journal
               PROVE  /\ SameRequest(Marked(j), j)
                      /\ j.content => Marked(j).content
                      /\ j.identity => Marked(j).identity
    OBVIOUS
  <2>1. j \in JournalRows
    BY DEF ErasureInv, ErasureType
  <2>2. CASE field = "content"
    BY <2>1, <2>2 DEF JournalRows, SameRequest
  <2>3. CASE field = "identity"
    BY <2>1, <2>3 DEF JournalRows, SameRequest
  <2> QED BY <2>2, <2>3
<1> HIDE DEF Marked
<1>3. KeysDrawn'
  BY <1>1, <1>2 DEF AccountInv, KeysDrawn, SameRequest
<1>4. OperationsAccounted'
  <2>1. \A n : (\E k \in journal' : k.op = n) <=> (\E j \in journal : j.op = n)
    BY <1>1, <1>2 DEF SameRequest
  <2>2. \A i, j \in journal' : i.op = j.op \/ i.key = j.key => i = j
    BY <1>1, <1>2 DEF SameRequest, AccountInv, OperationsAccounted
  <2> QED BY <2>1, <2>2 DEF AccountInv, OperationsAccounted
<1> QED BY <1>1, <1>2, <1>3, <1>4 DEF AccountInv

\* ... add the row of a new operation, whose key no other has ...
LEMMA InsertAccounts ==
  ASSUME ErasureInv, AccountInv, NEW c \in Clients, AskInsert(c)
  PROVE  AccountInv' /\ journal \subseteq journal'
<1>1. CASE UNCHANGED <<journal, ops>>
  BY <1>1, AccountsSame DEF AskInsert
<1> DEFINE new == [op |-> ops + 1, key |-> asking[c].key, kind |-> asking[c].kind,
                   content |-> FALSE, identity |-> FALSE]
<1>2. CASE /\ journal' = journal \cup {new} /\ ops' = ops + 1
           /\ \A j \in journal : j.key # asking[c].key
  <2>1. new.op = ops + 1 /\ new.key = asking[c].key
    OBVIOUS
  <2> HIDE DEF new
  <2>2. /\ \A j \in journal : j.op \in 1..ops
        /\ \A r \in receipts : r.op \in 1..ops
        /\ \A w \in Workers : working[w] # NotWorking => working[w].row.op \in 1..ops
        /\ ops \in Nat
    BY DEF ErasureInv, ErasureType, OperationsDrawn
  <2>3. ops + 1 \notin 1..ops /\ 1..(ops + 1) = 1..ops \cup {ops + 1}
    BY <2>2
  <2>4. KeysDrawn'
    BY <1>2, <2>1, <2>2, <2>3 DEF AskInsert, AccountInv, KeysDrawn
  <2>5. \A i, j \in journal' : i.op = j.op \/ i.key = j.key => i = j
    BY <1>2, <2>1, <2>2, <2>3 DEF AccountInv, OperationsAccounted
  <2>6. \A op \in 1..ops' : (\E j \in journal' : j.op = op) <=> ~\E r \in receipts' : r.op = op
    <3>1. UNCHANGED receipts
      BY DEF AskInsert
    <3>2. \A op \in 1..ops : (\E j \in journal' : j.op = op) <=> (\E j \in journal : j.op = op)
      BY <1>2, <2>1, <2>3
    <3>3. \E j \in journal' : j.op = ops + 1
      BY <1>2, <2>1
    <3>4. ~\E r \in receipts : r.op = ops + 1
      BY <2>2, <2>3
    <3> QED BY <1>2, <2>3, <3>1, <3>2, <3>3, <3>4 DEF AccountInv, OperationsAccounted
  <2> QED BY <1>2, <2>4, <2>5, <2>6 DEF AskInsert, AccountInv, OperationsAccounted
<1> QED BY <1>1, <1>2 DEF AskInsert

\* ... or put a receipt in the place of the row.
LEMMA CompleteAccounts ==
  ASSUME ErasureInv, AccountInv, NEW w \in Workers, Complete(w)
  PROVE  /\ AccountInv' /\ receipts \subseteq receipts'
         /\ \A j \in journal :
              \/ [op |-> j.op, key |-> j.key, kind |-> j.kind] \in receipts'
              \/ j \in journal'
<1>1. /\ working[w] # NotWorking /\ UNCHANGED ops
      /\ \A v \in Workers : working'[v] # NotWorking => working'[v] = working[v]
  BY DEF Complete, Work, NotWorking, ErasureInv, ErasureType
<1>2. CASE UNCHANGED <<journal, receipts>>
  BY <1>1, <1>2, AccountsSame
<1> DEFINE row == working[w].row
           receipt == [op |-> row.op, key |-> row.key, kind |-> row.kind]
<1>3. CASE /\ \A r \in receipts : r.op # row.op /\ r.key # row.key
           /\ receipts' = receipts \cup {receipt}
           /\ journal' = {j \in journal : j.op # row.op}
  <2>1. receipt.op = row.op /\ receipt.key = row.key /\ receipt.kind = row.kind
    OBVIOUS
  <2>2. KeysDrawn'
    BY <1>1, <1>3 DEF AccountInv, KeysDrawn
  <2>3. \A op \in 1..ops : (\E j \in journal' : j.op = op) <=> ~\E r \in receipts' : r.op = op
    BY <1>3, <2>1 DEF AccountInv, OperationsAccounted
  <2>4. \A q, r \in receipts' : q.op = r.op \/ q.key = r.key => q = r
    BY <1>3, <2>1 DEF AccountInv, OperationsAccounted
  <2>5. \A i, j \in journal' : i.op = j.op \/ i.key = j.key => i = j
    BY <1>3 DEF AccountInv, OperationsAccounted
  <2>6. ASSUME NEW j \in journal, j.op = row.op
        PROVE  [op |-> j.op, key |-> j.key, kind |-> j.kind] = receipt
    BY <1>1, <2>6 DEF ErasureInv, OperationsDrawn, AccountInv, KeysDrawn
  <2> QED BY <1>1, <1>3, <2>2, <2>3, <2>4, <2>5, <2>6 DEF AccountInv, OperationsAccounted
<1> QED BY <1>2, <1>3 DEF Complete

\* Every step keeps the accounts and the requests.
LEMMA AccountStep ==
  ASSUME ErasureInv, AccountInv, [ErasureNext]_erasureVars
  PROVE  AccountInv' /\ RequestsAreKept
<1>s. ASSUME UNCHANGED <<journal, receipts, ops>>,
             \A w \in Workers : working'[w] # NotWorking =>
               \/ working[w] # NotWorking /\ working'[w].row = working[w].row
               \/ working'[w].row \in journal
      PROVE  AccountInv' /\ RequestsAreKept
  BY <1>s, AccountsSame DEF RequestsAreKept
<1>1. ASSUME NEW c \in Clients,
             \/ \E key \in ErasureKeys, kind \in Kinds : AskReceipt(c, key, kind)
             \/ AskJournal(c)
      PROVE  AccountInv' /\ RequestsAreKept
  BY <1>1, <1>s DEF AskReceipt, AskJournal
<1>2. ASSUME NEW c \in Clients, AskInsert(c)
      PROVE  AccountInv' /\ RequestsAreKept
  BY <1>2, InsertAccounts DEF RequestsAreKept, AskInsert
<1>3. ASSUME NEW w \in Workers, NEW s, Work(w, s),
             s # NotWorking => \/ working[w] # NotWorking /\ s.row = working[w].row
                               \/ s.row \in journal
      PROVE  \A v \in Workers : working'[v] # NotWorking =>
               \/ working[v] # NotWorking /\ working'[v].row = working[v].row
               \/ working'[v].row \in journal
  BY <1>3 DEF Work, ErasureInv, ErasureType
<1>4. ASSUME NEW w \in Workers, WorkerStep(w)
      PROVE  AccountInv' /\ RequestsAreKept
  <2>1. ASSUME NEW row \in journal, WorkStart(w, row)
        PROVE  AccountInv' /\ RequestsAreKept
    BY <2>1, <1>3, <1>s DEF WorkStart
  <2>2. ASSUME NEW at, Work(w, [working[w] EXCEPT !.at = at]), working[w] # NotWorking
        PROVE  \A v \in Workers : working'[v] # NotWorking =>
                 working[v] # NotWorking /\ working'[v].row = working[v].row
    <3>1. working[w] \in [at : Stages, row : JournalRows]
      BY <2>2, WorkFields DEF ErasureInv
    <3>2. [working[w] EXCEPT !.at = at].row = working[w].row
      BY <3>1
    <3> QED BY <2>2, <3>2 DEF Work, ErasureInv, ErasureType
  <2>3. CASE ContentStage(w) \/ IdentityStage(w)
    BY <2>3, <2>2, <1>s DEF ContentStage, IdentityStage, NotWorking
  <2>4. CASE ContentMark(w) \/ IdentityMark(w)
    <3>1. /\ working[w] # NotWorking /\ UNCHANGED <<receipts, ops>>
          /\ \/ Work(w, [working[w] EXCEPT !.at = AfterContent(working[w].row)])
             \/ Work(w, [working[w] EXCEPT !.at = "backups"])
          /\ \/ Mark(working[w].row.op, "content")
             \/ Mark(working[w].row.op, "identity")
      BY <2>4 DEF ContentMark, IdentityMark, NotWorking
    <3>2. \A v \in Workers : working'[v] # NotWorking =>
            working[v] # NotWorking /\ working'[v].row = working[v].row
      BY <3>1, <2>2
    <3> QED BY <3>1, <3>2, MarkAccounts DEF RequestsAreKept, SameRequest
  <2>5. CASE BackupsCheck(w) \/ RegistryDelete(w)
    <3>1. \/ \E at : Work(w, [working[w] EXCEPT !.at = at])
          \/ Work(w, NotWorking)
      BY <2>5 DEF BackupsCheck, RegistryDelete
    <3>2. working[w] # NotWorking /\ UNCHANGED <<journal, receipts, ops>>
      BY <2>5 DEF BackupsCheck, RegistryDelete, NotWorking
    <3> QED BY <3>1, <3>2, <2>2, <1>3, <1>s
  <2>6. CASE Complete(w)
    BY <2>6, CompleteAccounts DEF RequestsAreKept
  <2> QED BY <1>4, <2>1, <2>3, <2>4, <2>5, <2>6 DEF WorkerStep, Proceed
<1>5. ASSUME NEW w \in Workers, WorkerDies(w)
      PROVE  AccountInv' /\ RequestsAreKept
  BY <1>5, <1>3, <1>s DEF WorkerDies
<1>6. ASSUME UNCHANGED <<journal, receipts, ops, working>>
      PROVE  AccountInv' /\ RequestsAreKept
  BY <1>6, <1>s
<1>7. ASSUME NEW b \in BackupIds, RegisterBackup(b) \/ ProviderDeletes(b) \/ MarkBackupDeleted(b)
      PROVE  AccountInv' /\ RequestsAreKept
  BY <1>6, <1>7 DEF RegisterBackup, ProviderDeletes, MarkBackupDeleted
<1>8. ASSUME NEW root \in Roots, ProvisionContent(root) \/ ProvisionIdentity(root)
      PROVE  AccountInv' /\ RequestsAreKept
  BY <1>6, <1>8 DEF ProvisionContent, ProvisionIdentity
<1>9. CASE UNCHANGED erasureVars
  BY <1>6, <1>9 DEF erasureVars
<1> QED BY <1>1, <1>2, <1>4, <1>5, <1>7, <1>8, <1>9 DEF ErasureNext, Roots

LEMMA AccountInvariant == ErasureSpec => []AccountInv
<1>1. ErasureInit => AccountInv
  BY DEF ErasureInit, AccountInv, KeysDrawn, OperationsAccounted
<1> QED BY <1>1, AccountStep, ErasureInvariant, PTL DEF ErasureSpec

\* No operation of request_erasure is lost between journal and receipts or
\* counts twice, for any number of clients that repeat it and of workers that
\* execute it at once.
THEOREM OperationsAreAccounted == ErasureSpec => []OperationsAccounted
<1>1. AccountInv => OperationsAccounted
  BY DEF AccountInv
<1> QED BY <1>1, AccountInvariant, PTL

\* Marks are never taken back and a row gives way to a receipt of its own
\* request only, although workers mark and complete from rows they read long
\* before.
THEOREM RequestsAreNeverLost == ErasureSpec => RequestsKept
<1>1. ErasureInv /\ AccountInv /\ [ErasureNext]_erasureVars
        => [RequestsAreKept]_erasureVars
  BY AccountStep
<1> QED BY <1>1, ErasureInvariant, AccountInvariant, PTL DEF ErasureSpec, RequestsKept
=============================================================================
