----------------------- MODULE ProjectIdentityProofs -----------------------
(***************************************************************************)
(* What ProjectIdentity promises of paths and projects, proved for any     *)
(* number of directories, names, clients and resolvers.                    *)
(***************************************************************************)
EXTENDS ProjectIdentity, TLAPS

(***************************************************************************)
(* The inductive invariant.  The rows refer to projects that exist         *)
(* (foreign keys), a label is given once per project (UNIQUE), a call that *)
(* has found or made a scope holds a project that owns its directory, and  *)
(* a directory comes to a project through a client or as its Root.         *)
(***************************************************************************)
References ==
  /\ \A s \in scopes : s.project \in projects
  /\ \A a \in aliases : a[1] \in projects

LabelsUnique ==
  \A s, t \in scopes : s.project = t.project /\ s.label = t.label => s = t

CallsOwn ==
  \A r \in Resolvers :
    call[r].op \in {"adopt", "path", "name"} =>
      call[r].project \in Owners(Cwd[r])

OwnersKnown ==
  \A path \in Paths : \A p \in Owners(path) :
    <<p, path>> \in explicit \/ Rooted(p, path)

IInv == /\ TypeOK /\ References /\ LabelsUnique
        /\ OnePathOwner /\ AnswersAgree /\ CallsOwn /\ OwnersKnown

\* The step gives p the directories ps, which nobody else had.
Claims(p, ps) ==
  /\ \A path \in ps : Owners(path) \subseteq {p}
  /\ \A path \in Paths :
       Owners(path)' = Owners(path) \cup (IF path \in ps THEN {p} ELSE {})

-----------------------------------------------------------------------------
(* Typing                                                                  *)

\* A call that works on a project holds one.
LEMMA CallProject ==
  ASSUME NEW c \in Call, c.op \notin {"idle", "alias", "slug"}
  PROVE  c.project \in Projects
BY DEF Call, Idle

\* The forms a call can take, and what it may become.
LEMMA CallForms ==
  /\ Idle \in Call
  /\ [op |-> "alias"] \in Call /\ [op |-> "slug"] \in Call
  /\ \A p \in Projects :
       \A op \in {"adopt", "root", "attach", "create", "settle", "path", "name"} :
         [op |-> op, project |-> p] \in Call
BY DEF Call

\* Going on with a well-formed call keeps the calls well formed.
LEMMA GotoType ==
  ASSUME NEW r \in Resolvers, NEW c \in Call, TypeOK, Goto(r, c)
  PROVE  /\ call' \in [Resolvers -> Call]
         /\ call' = [call EXCEPT ![r] = c]
BY DEF Goto, TypeOK

\* The slugs a directory is tried with are slugs.
LEMMA Slugs ==
  /\ \A name \in Names : Plain(name) \in Projects
  /\ \A path \in Paths : Hashed(path) \in Projects
  /\ \A r \in Resolvers : Cwd[r] \in Paths /\ NameOf[Cwd[r]] \in Names
BY PathsAssumption DEF Plain, Hashed, Projects

\* create_scope writes a scope.
LEMMA CreateScopeType ==
  ASSUME NEW p \in Projects, NEW label \in Label,
         NEW path \in Paths \cup {NoPath}, TypeOK, CreateScope(p, label, path)
  PROVE  scopes' \in SUBSET Scope
<1>1. [project |-> p, label |-> label, path |-> path] \in Scope
  BY DEF Scope
<1> QED
  BY <1>1 DEF CreateScope, TypeOK

\* create_project writes a project and an alias.
LEMMA CreateProjectType ==
  ASSUME NEW p \in Projects, TypeOK, CreateProject(p)
  PROVE  /\ projects' \in SUBSET Projects
         /\ aliases' \in SUBSET (Projects \X (Paths \cup Names))
<1>1. p.name \in Names
  BY DEF Projects
<1> QED
  BY <1>1 DEF CreateProject, TypeOK

\* Labels of a directory's scopes are labels.
LEMMA Labels ==
  /\ Root \in Label
  /\ \A path \in Paths : Workspace(path) \in Label
  /\ \A label \in ScopeNames : label \in Label
BY DEF Label

\* The tables, the calls and the histories stay within their types.
LEMMA TypeStep ==
  ASSUME TypeOK, [Next]_vars
  PROVE  TypeOK'
<1> USE DEF TypeOK
<1>1. ASSUME NEW name \in Names, CreateProjectCall(name)
      PROVE  TypeOK'
  BY <1>1, Slugs, CreateProjectType, PathsAssumption
     DEF CreateProjectCall, ClientCalls
<1>2. ASSUME NEW p \in projects, NEW label \in ScopeNames,
             NEW path \in Paths \cup {NoPath}, CreateScopeCall(p, label, path)
      PROVE  TypeOK'
  <2>1. scopes' \in SUBSET Scope
    BY <1>2, CreateScopeType, Labels DEF CreateScopeCall
  <2> QED
    BY <1>2, <2>1, PathsAssumption DEF CreateScopeCall, ClientCalls
<1>3. ASSUME NEW p \in projects, NEW path \in Paths, AliasCall(p, path)
      PROVE  TypeOK'
  BY <1>3, PathsAssumption DEF AliasCall, SetPathAlias, ClientCalls
<1>4. ASSUME NEW p \in Projects, NEW own \in SUBSET Paths,
             NEW known \in SUBSET Paths, Import(p, own, known)
      PROVE  TypeOK'
  <2>1. \A path \in own :
          [project |-> p, label |-> Workspace(path), path |-> path] \in Scope
    BY Labels DEF Scope
  <2>2. p.name \in Names
    BY DEF Projects
  <2>3. scopes' \in SUBSET Scope
    BY <1>4, <2>1 DEF Import
  <2> QED
    BY <1>4, <2>2, <2>3, PathsAssumption DEF Import, ClientCalls
<1>5. ASSUME NEW r \in Resolvers, ResolverStep(r)
      PROVE  TypeOK'
  <2>1. CASE ReadScope(r)
    <3>1. \A s \in scopes : s.project \in Projects
      BY DEF Scope
    <3> QED
      BY <2>1, <3>1, GotoType, CallForms DEF ReadScope, rows
  <2>2. CASE ReadAlias(r)
    BY <2>2, GotoType, CallForms DEF ReadAlias, rows
  <2>3. CASE Adopt(r)
    <3>1. call[r].project \in Projects
      BY <2>3, CallProject DEF Adopt
    <3>2. scopes' \in SUBSET Scope
      BY <2>3, <3>1, CreateScopeType, Labels, Slugs DEF Adopt
    <3> QED
      BY <2>3, <3>1, <3>2, GotoType, CallForms DEF Adopt
  <2>4. CASE ReadSlug(r)
    <3>1. Plain(NameOf[Cwd[r]]) \in Projects
      BY Slugs
    <3> QED
      BY <2>4, <3>1, GotoType, CallForms DEF ReadSlug, rows
  <2>5. CASE ReadRoot(r)
    <3>1. call[r].project \in Projects /\ Hashed(Cwd[r]) \in Projects
      BY <2>5, CallProject, Slugs DEF ReadRoot
    <3> QED
      BY <2>5, <3>1, GotoType, CallForms DEF ReadRoot, rows
  <2>6. CASE Attach(r)
    <3>1. call[r].project \in Projects
      BY <2>6, CallProject DEF Attach
    <3>2. scopes' \in SUBSET Scope
      BY <2>6, <3>1, CreateScopeType, Labels, Slugs DEF Attach
    <3> QED
      BY <2>6, <3>1, <3>2, GotoType, CallForms, Slugs DEF Attach, Answer
  <2>7. CASE Create(r)
    <3>1. call[r].project \in Projects
      BY <2>7, CallProject DEF Create
    <3> QED
      BY <2>7, <3>1, CreateProjectType, GotoType, CallForms DEF Create
  <2>8. CASE Settle(r)
    <3>1. call[r].project \in Projects
      BY <2>8, CallProject DEF Settle
    <3>2. scopes' \in SUBSET Scope
      BY <2>8, <3>1, CreateScopeType, Labels, Slugs DEF Settle
    <3> QED
      BY <2>8, <3>1, <3>2, GotoType, CallForms DEF Settle
  <2>9. CASE RegisterPath(r)
    <3>1. call[r].project \in Projects
      BY <2>9, CallProject DEF RegisterPath
    <3>2. <<call[r].project, Cwd[r]>> \in Projects \X (Paths \cup Names)
      BY <3>1, Slugs
    <3>3. aliases' \in SUBSET (Projects \X (Paths \cup Names))
      BY <2>9, <3>2 DEF RegisterPath, SetPathAlias
    <3>4. [op |-> "name", project |-> call[r].project] \in Call
      BY <3>1, CallForms
    <3>5. call' \in [Resolvers -> Call]
      BY <2>9, <3>4, GotoType DEF RegisterPath
    <3> QED
      BY <2>9, <3>3, <3>5 DEF RegisterPath
  <2>10. CASE RegisterName(r)
    <3>1. call[r].project \in Projects
      BY <2>10, CallProject DEF RegisterName
    <3>2. <<call[r].project, NameOf[Cwd[r]]>> \in Projects \X (Paths \cup Names)
      BY <3>1, Slugs
    <3>3. aliases' \in SUBSET (Projects \X (Paths \cup Names))
      BY <2>10, <3>2 DEF RegisterName
    <3>4. call' \in [Resolvers -> Call]
      BY <2>10, GotoType, CallForms DEF RegisterName, Answer
    <3>5. answers' \in [Paths -> SUBSET Projects]
      BY <2>10, <3>1, Slugs DEF RegisterName, Answer
    <3> QED
      BY <2>10, <3>3, <3>4, <3>5 DEF RegisterName
  <2>11. CASE Refused(r)
    BY <2>11, GotoType, CallForms DEF Refused, rows
  <2> QED
    BY <1>5, <2>1, <2>2, <2>3, <2>4, <2>5, <2>6, <2>7, <2>8, <2>9, <2>10,
       <2>11 DEF ResolverStep
<1>6. ASSUME NEW r \in Resolvers, Die(r)
      PROVE  TypeOK'
  <2>1. call' \in [Resolvers -> Call]
    BY <1>6, GotoType, CallForms DEF Die
  <2>2. deaths' \in 0..MaxDeaths
    BY <1>6, PathsAssumption DEF Die
  <2> QED
    BY <1>6, <2>1, <2>2 DEF Die, rows
<1>7. CASE UNCHANGED vars
  BY <1>7 DEF vars
<1> QED
  BY <1>1, <1>2, <1>3, <1>4, <1>5, <1>6, <1>7 DEF Next, ClientStep

\* The tables and the calls keep their types.
THEOREM TypeCorrect == Spec => []TypeOK
<1>1. Init => TypeOK
  BY PathsAssumption, CallForms DEF Init, TypeOK
<1> QED
  BY <1>1, TypeStep, PTL DEF Spec
-----------------------------------------------------------------------------
(* Who owns what after a step                                              *)

\* Only the tables say who owns a directory.
LEMMA OwnersKept ==
  ASSUME UNCHANGED rows
  PROVE  \A path \in Paths : Owners(path)' = Owners(path)
BY DEF rows, Owners

\* create_scope claims the directory it is given, if any.
LEMMA CreateScopeClaims ==
  ASSUME TypeOK, References, NEW p \in Projects, NEW label \in Label,
         NEW path \in Paths \cup {NoPath}, CreateScope(p, label, path),
         UNCHANGED <<projects, aliases>>
  PROVE  /\ Claims(p, {path} \ {NoPath})
         /\ References' /\ (LabelsUnique => LabelsUnique')
         /\ scopes \subseteq scopes'
<1>1. CASE path # NoPath /\ \E s \in scopes : s.project = p /\ s.path = path
  <2>1. UNCHANGED rows /\ Free(p, path) /\ p \in projects
    BY <1>1 DEF CreateScope, MayInsert, rows
  <2>2. p \in Owners(path)
    BY <1>1, <2>1 DEF Owners
  <2> QED
    BY <1>1, <2>1, <2>2, OwnersKept DEF Claims, Free, References, LabelsUnique, rows
<1>2. CASE ~(path # NoPath /\ \E s \in scopes : s.project = p /\ s.path = path)
  <2> DEFINE new == [project |-> p, label |-> label, path |-> path]
  <2>1. /\ scopes' = scopes \cup {new} /\ p \in projects
        /\ \A s \in scopes : s.project = p => s.label # label
        /\ path # NoPath => Free(p, path)
    BY <1>2 DEF CreateScope, MayInsert
  <2>2. \A x \in Paths :
          Owners(x)' = Owners(x) \cup (IF x \in {path} \ {NoPath} THEN {p} ELSE {})
    <3> SUFFICES ASSUME NEW x \in Paths
                 PROVE  Owners(x)' = Owners(x) \cup
                          (IF x \in {path} \ {NoPath} THEN {p} ELSE {})
      OBVIOUS
    <3>1. new.project = p /\ new.path = path /\ x # NoPath
      BY PathsAssumption
    <3>2. \A q : (\E s \in scopes' : s.project = q /\ s.path = x) <=>
                   \/ \E s \in scopes : s.project = q /\ s.path = x
                   \/ q = p /\ x = path
      BY <2>1, <3>1
    <3> QED
      BY <2>1, <3>1, <3>2 DEF Owners
  <2>3. new.project = p /\ new.label = label
    OBVIOUS
  <2>4. References'
    BY <2>1, <2>3 DEF References
  <2>5. LabelsUnique => LabelsUnique'
    BY <2>1, <2>3 DEF LabelsUnique
  <2> QED
    BY <2>1, <2>2, <2>4, <2>5 DEF Claims, Free
<1> QED
  BY <1>1, <1>2

\* create_project claims nothing: the alias it writes is a name.
LEMMA CreateProjectClaims ==
  ASSUME TypeOK, References, NEW p \in Projects, CreateProject(p),
         UNCHANGED scopes
  PROVE  /\ \A path \in Paths : Owners(path)' = Owners(path)
         /\ References' /\ (LabelsUnique => LabelsUnique')
<1>1. p.name \in Names
  BY DEF Projects
<1>2. \A path \in Paths : Owners(path)' = Owners(path)
  BY <1>1, PathsAssumption DEF CreateProject, Owners, References
<1>3. References'
  BY DEF CreateProject, References
<1>4. LabelsUnique => LabelsUnique'
  BY DEF LabelsUnique
<1> QED
  BY <1>2, <1>3, <1>4

\* set_project_alias claims the path.
LEMMA SetPathAliasClaims ==
  ASSUME TypeOK, References, NEW p \in Projects, NEW path \in Paths,
         SetPathAlias(p, path), UNCHANGED <<projects, scopes>>
  PROVE  /\ Claims(p, {path})
         /\ References' /\ (LabelsUnique => LabelsUnique')
<1>1. \A x \in Paths :
        Owners(x)' = Owners(x) \cup (IF x \in {path} THEN {p} ELSE {})
  BY DEF SetPathAlias, Owners
<1>2. References'
  BY DEF SetPathAlias, References
<1>3. LabelsUnique => LabelsUnique'
  BY DEF LabelsUnique
<1> QED
  BY <1>1, <1>2, <1>3 DEF Claims, SetPathAlias, Free

\* The import claims the paths of its scopes and aliases.
LEMMA ImportClaims ==
  ASSUME TypeOK, References, NEW p \in Projects, NEW own \in SUBSET Paths,
         NEW known \in SUBSET Paths, Import(p, own, known)
  PROVE  /\ Claims(p, own \cup known)
         /\ References' /\ (LabelsUnique => LabelsUnique')
         /\ scopes \subseteq scopes'
<1> DEFINE added == {[project |-> p, label |-> Workspace(path), path |-> path] : path \in own}
<1>1. /\ p \notin projects /\ projects' = projects \cup {p}
      /\ scopes' = scopes \cup added
      /\ aliases' = aliases \cup {<<p, p.name>>} \cup ({p} \X known)
      /\ \A path \in own \cup known : Free(p, path)
  BY DEF Import
<1>2. p.name \in Names
  BY DEF Projects
<1>3. \A s \in added : s.project = p /\ s.path \in own /\ s.label = Workspace(s.path)
  OBVIOUS
<1>4. ASSUME NEW path \in own
      PROVE  \E s \in added : s.project = p /\ s.path = path
  <2>1. [project |-> p, label |-> Workspace(path), path |-> path] \in added
    OBVIOUS
  <2> QED
    BY <2>1
<1>5. \A x \in Paths :
        Owners(x)' = Owners(x) \cup (IF x \in own \cup known THEN {p} ELSE {})
  <2> SUFFICES ASSUME NEW x \in Paths
               PROVE  Owners(x)' = Owners(x) \cup
                        (IF x \in own \cup known THEN {p} ELSE {})
    OBVIOUS
  <2>1. \A q : <<q, x>> \in aliases' <=>
                 <<q, x>> \in aliases \/ (q = p /\ x \in known)
    BY <1>1, <1>2, PathsAssumption
  <2>2. \A q : (\E s \in scopes' : s.project = q /\ s.path = x) <=>
                 \/ \E s \in scopes : s.project = q /\ s.path = x
                 \/ q = p /\ x \in own
    BY <1>1, <1>3, <1>4
  <2>3. \A q : (<<q, x>> \in aliases \/ \E s \in scopes : s.project = q /\ s.path = x)
                 => q \in projects
    BY DEF References
  <2> QED
    BY <1>1, <2>1, <2>2, <2>3 DEF Owners
<1>6. References'
  BY <1>1, <1>3 DEF References
<1>7. LabelsUnique => LabelsUnique'
  <2> HAVE LabelsUnique
  <2>1. \A a, b \in Paths : Workspace(a) = Workspace(b) => a = b
    BY DEF Workspace
  <2>2. \A s, t \in added : s.label = t.label => s = t
    BY <1>3, <2>1
  <2>3. \A s \in scopes : s.project # p
    BY <1>1 DEF References
  <2> QED
    BY <1>1, <1>3, <2>2, <2>3 DEF LabelsUnique
<1> QED
  BY <1>1, <1>5, <1>6, <1>7 DEF Claims, Free

-----------------------------------------------------------------------------
(* One owner                                                               *)

\* A step that claims directories leaves each with at most one owner and takes
\* none away.
LEMMA ClaimsKeepOne ==
  ASSUME OnePathOwner, NEW p, NEW ps \in SUBSET Paths, Claims(p, ps)
  PROVE  /\ OnePathOwner'
         /\ \A path \in Paths : Owners(path) \subseteq Owners(path)'
         /\ \A path \in ps : p \in Owners(path)'
         /\ \A path \in Paths : Owners(path)' \subseteq Owners(path) \cup {p}
         /\ \A path \in Paths \ ps : Owners(path)' = Owners(path)
<1>1. \A path \in Paths :
        Owners(path)' = Owners(path) \cup (IF path \in ps THEN {p} ELSE {})
  BY DEF Claims
<1>2. \A path \in ps : Owners(path) \subseteq {p}
  BY DEF Claims
<1>3. \A path \in Paths : \A q, s \in Owners(path)' : q = s
  BY <1>1, <1>2 DEF OnePathOwner
<1>4. OnePathOwner'
  BY <1>3 DEF OnePathOwner
<1>5. \A path \in ps : path \in Paths
  OBVIOUS
<1>6. \A path \in ps : p \in Owners(path)'
  BY <1>1, <1>5
<1>7. \A path \in Paths \ ps : Owners(path)' = Owners(path)
  BY <1>1
<1> QED
  BY <1>1, <1>4, <1>6, <1>7

\* What a step does to the part of IInv about owners and labels, and that it
\* takes no directory and no Root scope away.
Kept ==
  /\ References' /\ LabelsUnique' /\ OnePathOwner'
  /\ \A path \in Paths : Owners(path) \subseteq Owners(path)'

\* A step that does not touch the tables.
LEMMA KeptByReads ==
  ASSUME IInv, UNCHANGED rows
  PROVE  Kept
BY OwnersKept DEF IInv, Kept, OnePathOwner, References, LabelsUnique, rows

\* Nothing a client or a resolver does gives a directory two owners.
LEMMA KeptByAll ==
  ASSUME IInv, [Next]_vars
  PROVE  Kept
<1> USE DEF IInv
<1>1. ASSUME NEW name \in Names, CreateProjectCall(name)
      PROVE  Kept
  <2>1. Plain(name) \in Projects
    BY Slugs
  <2>2. CreateProject(Plain(name)) /\ UNCHANGED scopes
    BY <1>1 DEF CreateProjectCall
  <2> QED
    BY <2>1, <2>2, CreateProjectClaims DEF Kept, OnePathOwner
<1>2. ASSUME NEW p \in projects, NEW label \in ScopeNames,
             NEW path \in Paths \cup {NoPath}, CreateScopeCall(p, label, path)
      PROVE  Kept
  <2>1. p \in Projects /\ label \in Label /\ {path} \ {NoPath} \in SUBSET Paths
    BY Labels DEF TypeOK
  <2>2. CreateScope(p, label, path) /\ UNCHANGED <<projects, aliases>>
    BY <1>2 DEF CreateScopeCall
  <2> QED
    BY <2>1, <2>2, CreateScopeClaims, ClaimsKeepOne DEF Kept
<1>3. ASSUME NEW p \in projects, NEW path \in Paths, AliasCall(p, path)
      PROVE  Kept
  <2>1. p \in Projects
    BY DEF TypeOK
  <2>2. SetPathAlias(p, path) /\ UNCHANGED <<projects, scopes>>
    BY <1>3 DEF AliasCall, SetPathAlias
  <2> QED
    BY <2>1, <2>2, SetPathAliasClaims, ClaimsKeepOne DEF Kept
<1>4. ASSUME NEW p \in Projects, NEW own \in SUBSET Paths,
             NEW known \in SUBSET Paths, Import(p, own, known)
      PROVE  Kept
  BY <1>4, ImportClaims, ClaimsKeepOne DEF Kept
<1>5. ASSUME NEW r \in Resolvers, NEW p \in Projects, NEW label \in Label,
             CreateScope(p, label, Cwd[r]), UNCHANGED <<projects, aliases>>
      PROVE  Kept
  <2>1. Cwd[r] \in Paths \cup {NoPath} /\ {Cwd[r]} \ {NoPath} \in SUBSET Paths
    BY Slugs
  <2> QED
    BY <1>5, <2>1, CreateScopeClaims, ClaimsKeepOne DEF Kept
<1>6. ASSUME NEW r \in Resolvers, ResolverStep(r)
      PROVE  Kept
  <2>1. CASE ReadScope(r)
    BY <2>1, KeptByReads DEF ReadScope
  <2>2. CASE ReadAlias(r)
    BY <2>2, KeptByReads DEF ReadAlias
  <2>3. CASE Adopt(r)
    <3>1. call[r].project \in Projects
      BY <2>3, CallProject DEF Adopt, TypeOK
    <3> QED
      BY <2>3, <3>1, <1>5, Labels, Slugs DEF Adopt
  <2>4. CASE ReadSlug(r)
    BY <2>4, KeptByReads DEF ReadSlug
  <2>5. CASE ReadRoot(r)
    BY <2>5, KeptByReads DEF ReadRoot
  <2>6. CASE Attach(r)
    <3>1. call[r].project \in Projects
      BY <2>6, CallProject DEF Attach, TypeOK
    <3> QED
      BY <2>6, <3>1, <1>5, Labels, Slugs DEF Attach
  <2>7. CASE Create(r)
    <3>1. call[r].project \in Projects
      BY <2>7, CallProject DEF Create, TypeOK
    <3> QED
      BY <2>7, <3>1, CreateProjectClaims DEF Create, Kept, OnePathOwner
  <2>8. CASE Settle(r)
    <3>1. call[r].project \in Projects
      BY <2>8, CallProject DEF Settle, TypeOK
    <3> QED
      BY <2>8, <3>1, <1>5, Labels, Slugs DEF Settle
  <2>9. CASE RegisterPath(r)
    <3>1. call[r].project \in Projects
      BY <2>9, CallProject DEF RegisterPath, TypeOK
    <3>2. /\ SetPathAlias(call[r].project, Cwd[r])
          /\ UNCHANGED <<projects, scopes>>
          /\ Cwd[r] \in Paths /\ {Cwd[r]} \in SUBSET Paths
      BY <2>9, Slugs DEF RegisterPath
    <3>3. Claims(call[r].project, {Cwd[r]}) /\ References' /\ LabelsUnique'
      BY <3>1, <3>2, SetPathAliasClaims
    <3> QED
      BY <3>2, <3>3, ClaimsKeepOne DEF Kept
  <2>10. CASE RegisterName(r)
    <3>1. /\ call[r].project \in projects /\ UNCHANGED <<projects, scopes>>
          /\ aliases' = aliases \cup {<<call[r].project, NameOf[Cwd[r]]>>}
      BY <2>10 DEF RegisterName
    <3>2. \A path \in Paths : Owners(path)' = Owners(path)
      BY <3>1, Slugs, PathsAssumption DEF Owners
    <3>3. References' /\ LabelsUnique'
      BY <3>1 DEF References, LabelsUnique
    <3> QED
      BY <3>2, <3>3 DEF Kept, OnePathOwner
  <2>11. CASE Refused(r)
    BY <2>11, KeptByReads DEF Refused
  <2> QED
    BY <1>6, <2>1, <2>2, <2>3, <2>4, <2>5, <2>6, <2>7, <2>8, <2>9, <2>10,
       <2>11 DEF ResolverStep
<1>7. ASSUME NEW r \in Resolvers, Die(r)
      PROVE  Kept
  BY <1>7, KeptByReads DEF Die
<1>8. CASE UNCHANGED vars
  BY <1>8, KeptByReads DEF vars, rows
<1> QED
  BY <1>1, <1>2, <1>3, <1>4, <1>6, <1>7, <1>8 DEF Next, ClientStep

-----------------------------------------------------------------------------
(* Calls and answers                                                       *)

\* A step in which a resolver only moves on: if the place it comes to claims
\* the directory, its project owns it.
LEMMA CallsOwnGoto ==
  ASSUME IInv, Kept, TypeOK', NEW r \in Resolvers, NEW c \in Call, Goto(r, c),
         c.op \in {"adopt", "path", "name"} => c.project \in Owners(Cwd[r])'
  PROVE  CallsOwn'
<1>1. call' = [call EXCEPT ![r] = c] /\ call \in [Resolvers -> Call]
  BY DEF Goto, IInv, TypeOK
<1> SUFFICES ASSUME NEW q \in Resolvers, call'[q].op \in {"adopt", "path", "name"}
             PROVE  call'[q].project \in Owners(Cwd[q])'
  BY DEF CallsOwn
<1>2. CASE q = r
  BY <1>1, <1>2
<1>3. CASE q # r
  <2>1. call'[q] = call[q]
    BY <1>1, <1>3
  <2>2. call[q].project \in Owners(Cwd[q])
    BY <2>1 DEF IInv, CallsOwn
  <2> QED
    BY <2>1, <2>2, Slugs DEF Kept
<1> QED
  BY <1>2, <1>3

\* A step that leaves the calls alone.
LEMMA CallsOwnSame ==
  ASSUME IInv, Kept, UNCHANGED call
  PROVE  CallsOwn'
BY Slugs DEF IInv, CallsOwn, Kept

\* A step that answers nothing.
LEMMA AnswersSame ==
  ASSUME IInv, Kept, UNCHANGED answers
  PROVE  AnswersAgree'
BY DEF IInv, AnswersAgree, Kept

\* A step that answers with an owner.
LEMMA AnswersOwner ==
  ASSUME IInv, Kept, NEW r \in Resolvers, NEW p, Answer(r, p),
         p \in Owners(Cwd[r])'
  PROVE  AnswersAgree'
<1>1. answers' = [answers EXCEPT ![Cwd[r]] = @ \cup {p}]
      /\ answers \in [Paths -> SUBSET Projects]
  BY DEF Answer, IInv, TypeOK
<1> SUFFICES ASSUME NEW path \in Paths PROVE answers'[path] \subseteq Owners(path)'
  BY DEF AnswersAgree
<1>2. answers[path] \subseteq Owners(path)'
  BY DEF IInv, AnswersAgree, Kept
<1> QED
  BY <1>1, <1>2, Slugs

-----------------------------------------------------------------------------
(* How a directory came to its project                                     *)

\* It suffices to account for the owners that are new.
LEMMA KnownStep ==
  ASSUME IInv, scopes \subseteq scopes', explicit \subseteq explicit',
         \A path \in Paths : \A p \in Owners(path)' :
           p \in Owners(path) \/ <<p, path>> \in explicit' \/ Rooted(p, path)'
  PROVE  OwnersKnown'
<1> SUFFICES ASSUME NEW path \in Paths, NEW p \in Owners(path)'
             PROVE  <<p, path>> \in explicit' \/ Rooted(p, path)'
  BY DEF OwnersKnown
<1>1. CASE p \in Owners(path)
  <2>1. <<p, path>> \in explicit \/ Rooted(p, path)
    BY <1>1 DEF IInv, OwnersKnown
  <2> QED
    BY <2>1 DEF Rooted
<1> QED
  BY <1>1

\* A step that leaves the owners as they are.
LEMMA KnownSame ==
  ASSUME IInv, UNCHANGED <<scopes, explicit>>,
         \A path \in Paths : Owners(path)' \subseteq Owners(path)
  PROVE  OwnersKnown'
BY KnownStep

\* create_scope by a resolver: its project owns the directory afterwards; if
\* it did not before, the scope is a new one.
LEMMA ResolverScope ==
  ASSUME IInv, NEW r \in Resolvers, NEW p \in Projects, NEW label \in Label,
         CreateScope(p, label, Cwd[r]), UNCHANGED <<projects, aliases, explicit>>,
         label = Root \/ p \in Owners(Cwd[r])
  PROVE  p \in Owners(Cwd[r])' /\ OwnersKnown'
<1> DEFINE path == Cwd[r]
<1>1. path \in Paths /\ path # NoPath /\ {path} \ {NoPath} = {path}
  BY Slugs, PathsAssumption
<1>2. Claims(p, {path}) /\ scopes \subseteq scopes'
  BY <1>1, CreateScopeClaims DEF IInv
<1>3. /\ p \in Owners(path)'
      /\ \A x \in Paths : Owners(x)' \subseteq Owners(x) \cup {p}
      /\ \A x \in Paths \ {path} : Owners(x)' = Owners(x)
  BY <1>1, <1>2, ClaimsKeepOne DEF IInv
<1>4. p \in Owners(path) \/ Rooted(p, path)'
  <2> SUFFICES ASSUME p \notin Owners(path), label = Root
               PROVE  Rooted(p, path)'
    OBVIOUS
  <2>1. p \in projects
    BY DEF CreateScope, MayInsert
  <2>2. ~\E s \in scopes : s.project = p /\ s.path = path
    BY <2>1 DEF Owners
  <2>3. scopes' = scopes \cup {[project |-> p, label |-> label, path |-> path]}
    BY <2>2 DEF CreateScope
  <2>4. [project |-> p, label |-> label, path |-> path] \in scopes'
    BY <2>3
  <2> QED
    BY <2>4 DEF Rooted
<1>5. \A x \in Paths : \A q \in Owners(x)' :
        q \in Owners(x) \/ <<q, x>> \in explicit' \/ Rooted(q, x)'
  BY <1>1, <1>3, <1>4
<1> QED
  BY <1>2, <1>3, <1>5, KnownStep

\* Clients keep the invariant: what they put together is explicit.
LEMMA ClientsKeep ==
  ASSUME IInv, TypeOK', Kept, ClientStep
  PROVE  IInv'
<1> SUFFICES OwnersKnown' /\ UNCHANGED <<call, answers>>
  BY CallsOwnSame, AnswersSame DEF IInv, Kept
<1>1. ASSUME NEW name \in Names, CreateProjectCall(name)
      PROVE  OwnersKnown' /\ UNCHANGED <<call, answers>>
  <2>1. Plain(name) \in Projects
    BY Slugs
  <2>2. /\ CreateProject(Plain(name)) 
        /\ UNCHANGED <<scopes, call, explicit, answers>>
    BY <1>1 DEF CreateProjectCall
  <2>3. \A path \in Paths : Owners(path)' = Owners(path)
    BY <2>1, <2>2, CreateProjectClaims DEF IInv
  <2> QED
    BY <2>2, <2>3, KnownSame
<1>2. ASSUME NEW p \in projects, NEW label \in ScopeNames,
             NEW path \in Paths \cup {NoPath}, CreateScopeCall(p, label, path)
      PROVE  OwnersKnown' /\ UNCHANGED <<call, answers>>
  <2>1. p \in Projects /\ label \in Label
    BY Labels DEF IInv, TypeOK
  <2>2. /\ CreateScope(p, label, path)
        /\ UNCHANGED <<projects, aliases, call, answers>>
        /\ explicit' = explicit \cup ({p} \X ({path} \ {NoPath}))
    BY <1>2 DEF CreateScopeCall
  <2>3. Claims(p, {path} \ {NoPath}) /\ scopes \subseteq scopes'
    BY <2>1, <2>2, CreateScopeClaims DEF IInv
  <2>4. \A x \in Paths : \A q \in Owners(x)' :
          q \in Owners(x) \/ <<q, x>> \in explicit'
    BY <2>2, <2>3 DEF Claims
  <2> QED
    BY <2>2, <2>3, <2>4, KnownStep
<1>3. ASSUME NEW p \in projects, NEW path \in Paths, AliasCall(p, path)
      PROVE  OwnersKnown' /\ UNCHANGED <<call, answers>>
  <2>1. p \in Projects
    BY DEF IInv, TypeOK
  <2>2. /\ SetPathAlias(p, path)
        /\ UNCHANGED <<projects, scopes, call, answers>>
        /\ explicit' = explicit \cup {<<p, path>>}
    BY <1>3 DEF AliasCall
  <2>3. Claims(p, {path})
    BY <2>1, <2>2, SetPathAliasClaims DEF IInv
  <2>4. \A x \in Paths : \A q \in Owners(x)' :
          q \in Owners(x) \/ <<q, x>> \in explicit'
    BY <2>2, <2>3 DEF Claims
  <2> QED
    BY <2>2, <2>4, KnownStep
<1>4. ASSUME NEW p \in Projects, NEW own \in SUBSET Paths,
             NEW known \in SUBSET Paths, Import(p, own, known)
      PROVE  OwnersKnown' /\ UNCHANGED <<call, answers>>
  <2>1. Claims(p, own \cup known) /\ scopes \subseteq scopes'
    BY <1>4, ImportClaims DEF IInv
  <2>2. /\ explicit' = explicit \cup ({p} \X (own \cup known))
        /\ UNCHANGED <<call, answers>>
    BY <1>4 DEF Import
  <2>3. \A x \in Paths : \A q \in Owners(x)' :
          q \in Owners(x) \/ <<q, x>> \in explicit'
    BY <2>1, <2>2 DEF Claims
  <2> QED
    BY <2>1, <2>2, <2>3, KnownStep
<1> QED
  BY <1>1, <1>2, <1>3, <1>4 DEF ClientStep

\* The steps of resolve_project keep the invariant.
LEMMA ResolversKeep ==
  ASSUME IInv, TypeOK', Kept, NEW r \in Resolvers, ResolverStep(r)
  PROVE  IInv'
<1> USE DEF IInv
<1>s. SUFFICES CallsOwn' /\ AnswersAgree' /\ OwnersKnown'
  BY DEF Kept
<1>k. Idle.op \notin {"adopt", "path", "name"}
  BY DEF Idle
<1>r. ASSUME UNCHANGED rows, UNCHANGED explicit
      PROVE  OwnersKnown'
  BY <1>r, KnownSame, OwnersKept DEF rows
<1>1. CASE ReadScope(r)
  <2>1. UNCHANGED rows /\ UNCHANGED explicit /\ UNCHANGED answers
    BY <1>1 DEF ReadScope
  <2>2. CallsOwn'
    <3>1. CASE Goto(r, [op |-> "alias"])
      BY <3>1, CallForms, CallsOwnGoto
    <3>2. ASSUME NEW s \in scopes, s.path = Cwd[r],
                 Goto(r, [op |-> "path", project |-> s.project])
          PROVE  CallsOwn'
      <4>1. s.project \in projects /\ s.project \in Projects
        BY DEF References, TypeOK, Scope
      <4>2. s.project \in Owners(Cwd[r])
        BY <3>2, <4>1 DEF Owners
      <4>3. s.project \in Owners(Cwd[r])'
        BY <4>2, Slugs DEF Kept
      <4>4. [op |-> "path", project |-> s.project] \in Call
        BY <4>1, CallForms
      <4> QED
        BY <3>2, <4>3, <4>4, CallsOwnGoto
    <3> QED
      BY <1>1, <3>1, <3>2 DEF ReadScope
  <2> QED
    BY <1>r, <2>1, <2>2, AnswersSame
<1>2. CASE ReadAlias(r)
  <2>1. UNCHANGED rows /\ UNCHANGED explicit /\ UNCHANGED answers
    BY <1>2 DEF ReadAlias
  <2>2. CallsOwn'
    <3>1. CASE Goto(r, [op |-> "slug"])
      BY <3>1, CallForms, CallsOwnGoto
    <3>2. ASSUME NEW p \in projects, <<p, Cwd[r]>> \in aliases,
                 Goto(r, [op |-> "adopt", project |-> p])
          PROVE  CallsOwn'
      <4>1. p \in Owners(Cwd[r])
        BY <3>2 DEF Owners
      <4>2. p \in Owners(Cwd[r])'
        BY <4>1, Slugs DEF Kept
      <4>3. [op |-> "adopt", project |-> p] \in Call
        BY CallForms DEF TypeOK
      <4> QED
        BY <3>2, <4>2, <4>3, CallsOwnGoto
    <3> QED
      BY <1>2, <3>1, <3>2 DEF ReadAlias
  <2> QED
    BY <1>r, <2>1, <2>2, AnswersSame
<1>3. CASE Adopt(r)
  <2>1. /\ call[r].project \in Projects
        /\ call[r].project \in Owners(Cwd[r])
        /\ Workspace(Cwd[r]) \in Label
    BY <1>3, CallProject, Labels, Slugs DEF Adopt, TypeOK, CallsOwn
  <2>2. /\ CreateScope(call[r].project, Workspace(Cwd[r]), Cwd[r])
        /\ UNCHANGED <<projects, aliases, explicit>> /\ UNCHANGED answers
        /\ Goto(r, [op |-> "path", project |-> call[r].project])
    BY <1>3 DEF Adopt
  <2>3. call[r].project \in Owners(Cwd[r])' /\ OwnersKnown'
    BY <2>1, <2>2, ResolverScope
  <2>4. [op |-> "path", project |-> call[r].project] \in Call
    BY <2>1, CallForms
  <2>5. CallsOwn'
    BY <2>2, <2>3, <2>4, CallsOwnGoto
  <2> QED
    BY <2>2, <2>3, <2>5, AnswersSame
<1>4. CASE ReadSlug(r)
  <2> DEFINE c == [op |-> IF Plain(NameOf[Cwd[r]]) \in projects THEN "root" ELSE "create",
                   project |-> Plain(NameOf[Cwd[r]])]
  <2>1. /\ UNCHANGED rows /\ UNCHANGED explicit /\ UNCHANGED answers
        /\ Goto(r, c)
    BY <1>4 DEF ReadSlug
  <2>2. c \in Call /\ c.op \notin {"adopt", "path", "name"}
    BY CallForms, Slugs
  <2>3. CallsOwn'
    BY <2>1, <2>2, CallsOwnGoto
  <2> QED
    BY <1>r, <2>1, <2>3, AnswersSame
<1>5. CASE ReadRoot(r)
  <2>1. UNCHANGED rows /\ UNCHANGED explicit /\ UNCHANGED answers
    BY <1>5 DEF ReadRoot
  <2>2. PICK c \in {[op |-> "create", project |-> Hashed(Cwd[r])],
                    [op |-> "attach", project |-> call[r].project]} : Goto(r, c)
    BY <1>5 DEF ReadRoot
  <2>3. c \in Call /\ c.op \notin {"adopt", "path", "name"}
    <3>1. call[r].project \in Projects /\ Hashed(Cwd[r]) \in Projects
      BY <1>5, CallProject, Slugs DEF ReadRoot, TypeOK
    <3>2. /\ [op |-> "create", project |-> Hashed(Cwd[r])] \in Call
          /\ [op |-> "attach", project |-> call[r].project] \in Call
      BY <3>1, CallForms
    <3>3. c.op \in {"create", "attach"}
      BY <2>2
    <3> QED
      BY <2>2, <3>2, <3>3
  <2>4. CallsOwn'
    BY <2>2, <2>3, CallsOwnGoto
  <2> QED
    BY <1>r, <2>1, <2>4, AnswersSame
<1>6. CASE Attach(r)
  <2>1. call[r].project \in Projects /\ Root \in Label
    BY <1>6, CallProject, Labels DEF Attach, TypeOK
  <2>2. /\ CreateScope(call[r].project, Root, Cwd[r])
        /\ UNCHANGED <<projects, aliases, explicit>>
        /\ Answer(r, call[r].project) /\ Goto(r, Idle)
    BY <1>6 DEF Attach, Answer
  <2>3. call[r].project \in Owners(Cwd[r])' /\ OwnersKnown'
    BY <2>1, <2>2, ResolverScope
  <2>4. CallsOwn'
    BY <1>k, <2>2, CallForms, CallsOwnGoto
  <2> QED
    BY <2>2, <2>3, <2>4, AnswersOwner
<1>7. CASE Create(r)
  <2>1. call[r].project \in Projects
    BY <1>7, CallProject DEF Create, TypeOK
  <2>2. /\ CreateProject(call[r].project) /\ UNCHANGED scopes
        /\ UNCHANGED explicit /\ UNCHANGED answers
        /\ Goto(r, [op |-> "settle", project |-> call[r].project])
    BY <1>7 DEF Create
  <2>3. \A path \in Paths : Owners(path)' = Owners(path)
    BY <2>1, <2>2, CreateProjectClaims
  <2>4. CallsOwn'
    BY <2>1, <2>2, CallForms, CallsOwnGoto
  <2> QED
    BY <2>2, <2>3, <2>4, AnswersSame, KnownSame
<1>8. CASE Settle(r)
  <2>1. call[r].project \in Projects /\ Root \in Label
    BY <1>8, CallProject, Labels DEF Settle, TypeOK
  <2>2. /\ CreateScope(call[r].project, Root, Cwd[r])
        /\ UNCHANGED <<projects, aliases, explicit>> /\ UNCHANGED answers
        /\ Goto(r, [op |-> "path", project |-> call[r].project])
    BY <1>8 DEF Settle
  <2>3. call[r].project \in Owners(Cwd[r])' /\ OwnersKnown'
    BY <2>1, <2>2, ResolverScope
  <2>4. [op |-> "path", project |-> call[r].project] \in Call
    BY <2>1, CallForms
  <2>5. CallsOwn'
    BY <2>2, <2>3, <2>4, CallsOwnGoto
  <2> QED
    BY <2>2, <2>3, <2>5, AnswersSame
<1>9. CASE RegisterPath(r)
  <2>1. /\ call[r].project \in Projects /\ Cwd[r] \in Paths
        /\ call[r].project \in Owners(Cwd[r])
    BY <1>9, CallProject, Slugs DEF RegisterPath, TypeOK, CallsOwn
  <2>2. /\ SetPathAlias(call[r].project, Cwd[r])
        /\ UNCHANGED <<projects, scopes>> /\ UNCHANGED explicit
        /\ UNCHANGED answers
        /\ Goto(r, [op |-> "name", project |-> call[r].project])
    BY <1>9 DEF RegisterPath
  <2>3. Claims(call[r].project, {Cwd[r]})
    BY <2>1, <2>2, SetPathAliasClaims
  <2>4. \A x \in Paths : Owners(x)' = Owners(x)
    BY <2>1, <2>3 DEF Claims
  <2>5. [op |-> "name", project |-> call[r].project] \in Call
    BY <2>1, CallForms
  <2>6. call[r].project \in Owners(Cwd[r])'
    BY <2>1, <2>4
  <2>7. CallsOwn'
    BY <2>2, <2>5, <2>6, CallsOwnGoto
  <2> QED
    BY <2>2, <2>4, <2>7, AnswersSame, KnownSame
<1>10. CASE RegisterName(r)
  <2>1. call[r].project \in Owners(Cwd[r]) /\ Cwd[r] \in Paths
    BY <1>10, Slugs DEF RegisterName, CallsOwn
  <2>2. /\ aliases' = aliases \cup {<<call[r].project, NameOf[Cwd[r]]>>}
        /\ UNCHANGED <<projects, scopes>> /\ UNCHANGED explicit
        /\ Answer(r, call[r].project) /\ Goto(r, Idle)
    BY <1>10 DEF RegisterName, Answer
  <2>3. \A path \in Paths : Owners(path)' = Owners(path)
    BY <2>2, Slugs, PathsAssumption DEF Owners
  <2>4. call[r].project \in Owners(Cwd[r])'
    BY <2>1, <2>3
  <2>5. CallsOwn'
    BY <1>k, <2>2, CallForms, CallsOwnGoto
  <2> QED
    BY <2>2, <2>3, <2>4, <2>5, AnswersOwner, KnownSame
<1>11. CASE Refused(r)
  <2>1. /\ UNCHANGED rows /\ UNCHANGED explicit /\ UNCHANGED answers
        /\ Goto(r, Idle)
    BY <1>11 DEF Refused
  <2>2. CallsOwn'
    BY <1>k, <2>1, CallForms, CallsOwnGoto
  <2> QED
    BY <1>r, <2>1, <2>2, AnswersSame
<1> QED
  BY <1>1, <1>2, <1>3, <1>4, <1>5, <1>6, <1>7, <1>8, <1>9, <1>10, <1>11
     DEF ResolverStep

-----------------------------------------------------------------------------
(* The theorems                                                            *)

\* An empty database satisfies the invariant.
LEMMA IInvInit == Init => IInv
<1> HAVE Init
<1>1. TypeOK
  BY PathsAssumption, CallForms DEF Init, TypeOK
<1>2. \A path \in Paths : Owners(path) = {}
  BY DEF Init, Owners
<1>3. CallsOwn
  BY DEF Init, CallsOwn, Idle
<1>4. References /\ LabelsUnique
  BY DEF Init, References, LabelsUnique
<1>5. OnePathOwner /\ AnswersAgree /\ OwnersKnown
  BY <1>2 DEF Init, OnePathOwner, AnswersAgree, OwnersKnown
<1> QED
  BY <1>1, <1>3, <1>4, <1>5 DEF IInv

\* Every step keeps the invariant.
LEMMA IInvStep ==
  ASSUME IInv, [Next]_vars
  PROVE  IInv'
<1>1. TypeOK' /\ Kept
  BY TypeStep, KeptByAll DEF IInv
<1>2. CASE ClientStep
  BY <1>1, <1>2, ClientsKeep
<1>3. ASSUME NEW r \in Resolvers, ResolverStep(r)
      PROVE  IInv'
  BY <1>1, <1>3, ResolversKeep
<1>4. ASSUME NEW r \in Resolvers, Die(r)
      PROVE  IInv'
  <2>1. /\ UNCHANGED rows /\ UNCHANGED explicit /\ UNCHANGED answers
        /\ Goto(r, Idle)
    BY <1>4 DEF Die
  <2>2. Idle.op \notin {"adopt", "path", "name"}
    BY DEF Idle
  <2>3. CallsOwn'
    BY <1>1, <2>1, <2>2, CallForms, CallsOwnGoto
  <2>4. AnswersAgree' /\ OwnersKnown'
    BY <1>1, <2>1, AnswersSame, KnownSame, OwnersKept DEF rows
  <2> QED
    BY <1>1, <2>3, <2>4 DEF IInv, Kept
<1>5. CASE UNCHANGED vars
  <2>1. /\ UNCHANGED rows /\ UNCHANGED explicit /\ UNCHANGED answers
        /\ UNCHANGED call
    BY <1>5 DEF vars, rows
  <2>2. CallsOwn' /\ AnswersAgree' /\ OwnersKnown'
    BY <1>1, <2>1, CallsOwnSame, AnswersSame, KnownSame, OwnersKept DEF rows
  <2> QED
    BY <1>1, <2>2 DEF IInv, Kept
<1> QED
  BY <1>2, <1>3, <1>4, <1>5 DEF Next

\* The invariant holds in every reachable state.
LEMMA Invariance == Spec => []IInv
BY IInvInit, IInvStep, PTL DEF Spec

\* Whatever registers, resolves and imports at once, a canonical path has one
\* owner across both scopes.path and project_aliases.
THEOREM PathHasOneOwner == Spec => []OnePathOwner
<1>1. IInv => OnePathOwner
  BY DEF IInv
<1> QED
  BY <1>1, Invariance, PTL

\* All answers of resolve_project for a directory are the project that owns it.
THEOREM AnswersOwnPath == Spec => []AnswersAgree
<1>1. IInv => AnswersAgree
  BY DEF IInv
<1> QED
  BY <1>1, Invariance, PTL

\* resolve_project never answers two directories with one project unless a
\* client has put one of them there: a project has one Root scope only.
THEOREM SameNameIsNotSameProject == Spec => []NamesDoNotMerge
<1>1. IInv => NamesDoNotMerge
  <2> SUFFICES ASSUME IInv, NEW a \in Paths, NEW b \in Paths,
                      NEW p \in answers[a] \cap answers[b],
                      <<p, a>> \notin explicit, <<p, b>> \notin explicit
               PROVE  a = b
    BY DEF NamesDoNotMerge
  <2>1. p \in Owners(a) /\ p \in Owners(b)
    BY DEF IInv, AnswersAgree
  <2>2. Rooted(p, a) /\ Rooted(p, b)
    BY <2>1 DEF IInv, OwnersKnown
  <2>3. PICK s \in scopes, t \in scopes :
          /\ s.project = p /\ s.label = Root /\ s.path = a
          /\ t.project = p /\ t.label = Root /\ t.path = b
    BY <2>2 DEF Rooted
  <2> QED
    BY <2>3 DEF IInv, LabelsUnique
<1> QED
  BY <1>1, Invariance, PTL

-----------------------------------------------------------------------------
(* The registry                                                            *)

\* What clients have put together is theirs still.
GivenOwned ==
  \A p \in Projects, path \in Paths : <<p, path>> \in explicit => p \in Owners(path)

\* The tables and the registry agree on who has a directory.
LEMMA RegistryOwner ==
  ASSUME IInv, GivenOwned, NEW p \in Projects, NEW path \in Paths
  PROVE  <<p, path>> \in explicit \cup Homes <=> p \in Owners(path)
<1>1. Rooted(p, path) => p \in Owners(path)
  BY DEF Rooted, Owners, IInv, References
<1>2. <<p, path>> \in Homes <=> Rooted(p, path)
  BY DEF Homes
<1> QED
  BY <1>1, <1>2 DEF IInv, OwnersKnown, GivenOwned

\* What nobody else owns is free in the registry.
LEMMA RegistryFree ==
  ASSUME IInv, GivenOwned, NEW p \in Projects, NEW path \in Paths,
         Owners(path) \subseteq {p}
  PROVE  Registry!Free(p, path)
BY RegistryOwner DEF Registry!Free

\* Only scopes make homes.
LEMMA HomesOfScopes ==
  ASSUME UNCHANGED scopes
  PROVE  UNCHANGED Homes
BY DEF Homes, Rooted

\* create_scope makes a home of the directory it is given, the first one of
\* the project, or none.
LEMMA HomesOfCreateScope ==
  ASSUME IInv, GivenOwned, NEW p \in Projects, NEW label \in Label,
         NEW path \in Paths \cup {NoPath}, CreateScope(p, label, path)
  PROVE  UNCHANGED Homes \/ (path # NoPath /\ Registry!MakeHome(p, path))
<1> DEFINE new == [project |-> p, label |-> label, path |-> path]
<1>1. CASE UNCHANGED scopes
  BY <1>1, HomesOfScopes
<1>2. CASE scopes' # scopes
  <2>1. /\ scopes' = scopes \cup {new}
        /\ \A s \in scopes : s.project = p => s.label # label
        /\ path # NoPath => Owners(path) \subseteq {p}
    BY <1>2 DEF CreateScope, MayInsert, Free, Owners
  <2>2. new.project = p /\ new.label = label /\ new.path = path
    OBVIOUS
  <2>3. CASE label = Root /\ path # NoPath
    <3>1. \A q \in Projects, x \in Paths :
            Rooted(q, x)' <=> Rooted(q, x) \/ (q = p /\ x = path)
      BY <2>1, <2>2, <2>3 DEF Rooted
    <3>2. Homes' = Homes \cup {<<p, path>>}
      BY <3>1, <2>3 DEF Homes
    <3>3. \A home \in Paths : <<p, home>> \notin Homes
      BY <2>1, <2>3 DEF Homes, Rooted
    <3> QED
      BY <2>1, <2>3, <3>2, <3>3, RegistryFree DEF Registry!MakeHome
  <2>4. CASE ~(label = Root /\ path # NoPath)
    <3>1. \A q, x : x \in Paths => (Rooted(q, x)' <=> Rooted(q, x))
      BY <2>1, <2>2, <2>4, PathsAssumption DEF Rooted
    <3> QED
      BY <3>1 DEF Homes
  <2> QED
    BY <2>3, <2>4
<1> QED
  BY <1>1, <1>2

\* A client gives a project directories nobody else has, and makes at most one
\* of them its home.
LEMMA ClientsGive ==
  ASSUME IInv, GivenOwned, ClientStep
  PROVE  \E p \in Projects, ps \in SUBSET Paths :
           /\ Claims(p, ps)
           /\ explicit' = explicit \cup ({p} \X ps)
           /\ UNCHANGED Homes \/ \E path \in ps : Registry!MakeHome(p, path)
           /\ UNCHANGED answers
<1> USE DEF IInv
<1>1. ASSUME NEW name \in Names, CreateProjectCall(name)
      PROVE  /\ Claims(Plain(name), {})
             /\ explicit' = explicit \cup ({Plain(name)} \X {})
             /\ UNCHANGED Homes /\ UNCHANGED answers
  <2>1. /\ CreateProject(Plain(name)) /\ Plain(name) \in Projects
        /\ UNCHANGED <<scopes, explicit, answers>>
    BY <1>1, Slugs DEF CreateProjectCall
  <2> QED
    BY <2>1, CreateProjectClaims, HomesOfScopes DEF Claims
<1>2. ASSUME NEW p \in projects, NEW label \in ScopeNames,
             NEW path \in Paths \cup {NoPath}, CreateScopeCall(p, label, path)
      PROVE  /\ Claims(p, {path} \ {NoPath})
             /\ explicit' = explicit \cup ({p} \X ({path} \ {NoPath}))
             /\ \/ UNCHANGED Homes
                \/ \E x \in {path} \ {NoPath} : Registry!MakeHome(p, x)
             /\ UNCHANGED answers
  <2>1. p \in Projects /\ label \in Label
    BY Labels DEF TypeOK
  <2>2. /\ CreateScope(p, label, path) /\ UNCHANGED <<projects, aliases, answers>>
        /\ explicit' = explicit \cup ({p} \X ({path} \ {NoPath}))
    BY <1>2 DEF CreateScopeCall
  <2>3. UNCHANGED Homes \/ (path # NoPath /\ Registry!MakeHome(p, path))
    BY <2>1, <2>2, HomesOfCreateScope
  <2>4. Claims(p, {path} \ {NoPath})
    BY <2>1, <2>2, CreateScopeClaims
  <2> QED
    BY <2>2, <2>3, <2>4
<1>3. ASSUME NEW p \in projects, NEW path \in Paths, AliasCall(p, path)
      PROVE  /\ Claims(p, {path})
             /\ explicit' = explicit \cup ({p} \X {path})
             /\ UNCHANGED Homes /\ UNCHANGED answers
  <2>1. p \in Projects
    BY DEF TypeOK
  <2>2. /\ SetPathAlias(p, path) /\ UNCHANGED <<projects, scopes, answers>>
        /\ explicit' = explicit \cup {<<p, path>>}
    BY <1>3 DEF AliasCall
  <2> QED
    BY <2>1, <2>2, SetPathAliasClaims, HomesOfScopes
<1>4. ASSUME NEW p \in Projects, NEW own \in SUBSET Paths,
             NEW known \in SUBSET Paths, Import(p, own, known)
      PROVE  /\ Claims(p, own \cup known)
             /\ explicit' = explicit \cup ({p} \X (own \cup known))
             /\ UNCHANGED Homes /\ UNCHANGED answers
  <2> DEFINE added == {[project |-> p, label |-> Workspace(path), path |-> path] : path \in own}
  <2>1. /\ scopes' = scopes \cup added /\ UNCHANGED answers
        /\ explicit' = explicit \cup ({p} \X (own \cup known))
    BY <1>4 DEF Import
  <2>2. \A s \in added : s.label # Root
    BY DEF Workspace, Root
  <2>3. \A q, x : Rooted(q, x)' <=> Rooted(q, x)
    BY <2>1, <2>2 DEF Rooted
  <2> QED
    BY <1>4, <2>1, <2>3, ImportClaims DEF Homes
<1>5. \A p \in projects : p \in Projects
  BY DEF TypeOK
<1>6. \A name \in Names : Plain(name) \in Projects
  BY Slugs
<1>7. CASE \E name \in Names : CreateProjectCall(name)
  BY <1>1, <1>6, <1>7
<1>8. CASE \E p \in projects, label \in ScopeNames, path \in Paths \cup {NoPath} :
             CreateScopeCall(p, label, path)
  <2>1. PICK p \in projects, label \in ScopeNames, path \in Paths \cup {NoPath} :
               CreateScopeCall(p, label, path)
    BY <1>8
  <2>2. {path} \ {NoPath} \in SUBSET Paths
    OBVIOUS
  <2> QED
    BY <1>2, <1>5, <2>1, <2>2
<1>9. CASE \E p \in projects, path \in Paths : AliasCall(p, path)
  <2>1. PICK p \in projects, path \in Paths : AliasCall(p, path)
    BY <1>9
  <2>2. {path} \in SUBSET Paths
    OBVIOUS
  <2> QED
    BY <1>3, <1>5, <2>1, <2>2
<1>10. CASE \E p \in Projects, own, known \in SUBSET Paths : Import(p, own, known)
  <2>1. PICK p \in Projects, own \in SUBSET Paths, known \in SUBSET Paths :
               Import(p, own, known)
    BY <1>10
  <2>2. own \cup known \in SUBSET Paths
    OBVIOUS
  <2>3. /\ Claims(p, own \cup known)
        /\ explicit' = explicit \cup ({p} \X (own \cup known))
        /\ UNCHANGED Homes /\ UNCHANGED answers
    BY <1>4, <2>1
  <2> QED
    BY <2>2, <2>3
<1> QED
  BY <1>7, <1>8, <1>9, <1>10 DEF ClientStep

\* An answer is the only one its directory has had.
LEMMA AnswerIsReply ==
  ASSUME IInv, IInv', Kept, NEW r \in Resolvers, NEW p, Answer(r, p),
         p \in Owners(Cwd[r])'
  PROVE  answers' = [answers EXCEPT ![Cwd[r]] = {p}]
<1>1. Cwd[r] \in Paths
  BY Slugs
<1>2. answers[Cwd[r]] \subseteq Owners(Cwd[r])'
  BY <1>1 DEF IInv, AnswersAgree, Kept
<1>3. \A q \in Owners(Cwd[r])' : q = p
  BY <1>1 DEF IInv, OnePathOwner
<1>4. answers[Cwd[r]] \cup {p} = {p}
  BY <1>2, <1>3
<1> QED
  BY <1>4 DEF Answer

\* What a step of a resolver means for the registry: nothing, or a home, an
\* answer or both for its directory.
ResolverMeans(r) ==
  /\ UNCHANGED explicit
  /\ \/ UNCHANGED <<Homes, answers>>
     \/ \E p \in Projects :
          /\ UNCHANGED Homes \/ Registry!MakeHome(p, Cwd[r])
          /\ \/ UNCHANGED answers
             \/ /\ p \in Owners(Cwd[r])'
                /\ answers' = [answers EXCEPT ![Cwd[r]] = {p}]

\* That is what every step of resolve_project means.
LEMMA ResolversReply ==
  ASSUME IInv, IInv', GivenOwned, Kept, NEW r \in Resolvers, ResolverStep(r)
  PROVE  ResolverMeans(r)
<1>r. ASSUME UNCHANGED scopes, UNCHANGED explicit, UNCHANGED answers
      PROVE  ResolverMeans(r)
  BY <1>r, HomesOfScopes DEF ResolverMeans
<1>s. ASSUME NEW p \in Projects, NEW label \in Label,
             CreateScope(p, label, Cwd[r]), UNCHANGED explicit, UNCHANGED answers
      PROVE  ResolverMeans(r)
  <2>1. Cwd[r] \in Paths \cup {NoPath}
    BY Slugs
  <2>2. UNCHANGED Homes \/ Registry!MakeHome(p, Cwd[r])
    BY <1>s, <2>1, HomesOfCreateScope
  <2> QED
    BY <1>s, <2>2 DEF ResolverMeans
<1>1. CASE ReadScope(r) \/ ReadAlias(r) \/ ReadSlug(r) \/ ReadRoot(r) \/ Refused(r)
  BY <1>1, <1>r DEF ReadScope, ReadAlias, ReadSlug, ReadRoot, Refused, rows
<1>2. CASE Create(r)
  BY <1>2, <1>r DEF Create
<1>3. CASE RegisterPath(r)
  BY <1>3, <1>r DEF RegisterPath
<1>4. CASE Adopt(r)
  <2>1. call[r].project \in Projects
    BY <1>4, CallProject DEF Adopt, IInv, TypeOK
  <2> QED
    BY <1>4, <1>s, <2>1, Labels, Slugs DEF Adopt
<1>5. CASE Settle(r)
  <2>1. call[r].project \in Projects
    BY <1>5, CallProject DEF Settle, IInv, TypeOK
  <2> QED
    BY <1>5, <1>s, <2>1, Labels DEF Settle
<1>6. CASE Attach(r)
  <2>1. call[r].project \in Projects /\ Root \in Label
    BY <1>6, CallProject, Labels DEF Attach, IInv, TypeOK
  <2>2. /\ CreateScope(call[r].project, Root, Cwd[r])
        /\ Answer(r, call[r].project)
        /\ UNCHANGED <<projects, aliases, explicit>>
    BY <1>6 DEF Attach
  <2>3. call[r].project \in Owners(Cwd[r])'
    BY <2>1, <2>2, ResolverScope
  <2>4. answers' = [answers EXCEPT ![Cwd[r]] = {call[r].project}]
    BY <2>2, <2>3, AnswerIsReply
  <2>5. Cwd[r] \in Paths \cup {NoPath}
    BY Slugs
  <2>6. UNCHANGED Homes \/ Registry!MakeHome(call[r].project, Cwd[r])
    BY <2>1, <2>2, <2>5, HomesOfCreateScope
  <2> QED
    BY <2>1, <2>2, <2>3, <2>4, <2>6 DEF ResolverMeans
<1>7. CASE RegisterName(r)
  <2>1. call[r].project \in Projects /\ call[r].project \in Owners(Cwd[r])
    BY <1>7, CallProject DEF RegisterName, IInv, TypeOK, CallsOwn
  <2>2. /\ Answer(r, call[r].project)
        /\ UNCHANGED <<projects, scopes, explicit>>
    BY <1>7 DEF RegisterName
  <2>3. call[r].project \in Owners(Cwd[r])'
    BY <2>1, Slugs DEF Kept
  <2>4. answers' = [answers EXCEPT ![Cwd[r]] = {call[r].project}]
    BY <2>2, <2>3, AnswerIsReply
  <2> QED
    BY <2>1, <2>2, <2>3, <2>4, HomesOfScopes DEF ResolverMeans
<1> QED
  BY <1>1, <1>2, <1>3, <1>4, <1>5, <1>6, <1>7 DEF ResolverStep

\* No step takes away what clients have put together.
LEMMA GivenOwnedStep ==
  ASSUME IInv, GivenOwned, [Next]_vars
  PROVE  GivenOwned'
<1>k. Kept
  BY KeptByAll
<1>e. ASSUME UNCHANGED explicit
      PROVE  GivenOwned'
  BY <1>e, <1>k DEF GivenOwned, Kept
<1>1. CASE ClientStep
  <2>1. PICK p \in Projects, ps \in SUBSET Paths :
          Claims(p, ps) /\ explicit' = explicit \cup ({p} \X ps)
    BY <1>1, ClientsGive
  <2>2. \A path \in ps : p \in Owners(path)'
    BY <2>1, ClaimsKeepOne DEF IInv
  <2> QED
    BY <1>k, <2>1, <2>2 DEF GivenOwned, Kept
<1>2. CASE \E r \in Resolvers : ResolverStep(r) \/ Die(r)
  <2>1. UNCHANGED explicit
    BY <1>2 DEF ResolverStep, ReadScope, ReadAlias, Adopt, ReadSlug, ReadRoot,
       Attach, Create, Settle, RegisterPath, RegisterName, Refused, Die
  <2> QED
    BY <1>e, <2>1
<1>3. CASE UNCHANGED vars
  BY <1>3, <1>e DEF vars
<1> QED
  BY <1>1, <1>2, <1>3 DEF Next

\* Every step is one of the registry, or means nothing to it.
LEMMA StepKeepsRegistry ==
  ASSUME IInv, GivenOwned, [Next]_vars
  PROVE  [Registry!Move]_(Registry!rvars)
<1> SUFFICES Registry!Move \/ UNCHANGED Registry!rvars
  OBVIOUS
<1>k. IInv' /\ Kept /\ GivenOwned'
  BY IInvStep, KeptByAll, GivenOwnedStep
<1>1. CASE ClientStep
  <2>1. PICK p \in Projects, ps \in SUBSET Paths :
          /\ Claims(p, ps)
          /\ explicit' = explicit \cup ({p} \X ps)
          /\ UNCHANGED Homes \/ \E path \in ps : Registry!MakeHome(p, path)
          /\ UNCHANGED answers
    BY <1>1, ClientsGive
  <2>2. \A path \in ps : Registry!Free(p, path)
    BY <2>1, RegistryFree DEF Claims
  <2>3. Registry!Give(p, ps)
    BY <2>1, <2>2 DEF Registry!Give
  <2> QED
    BY <2>1, <2>3 DEF Registry!Move
<1>2. ASSUME NEW r \in Resolvers, ResolverStep(r)
      PROVE  Registry!Move \/ UNCHANGED Registry!rvars
  <2>1. ResolverMeans(r) /\ Cwd[r] \in Paths
    BY <1>k, <1>2, ResolversReply, Slugs
  <2>2. CASE UNCHANGED <<Homes, answers>>
    BY <2>1, <2>2 DEF ResolverMeans, Registry!rvars
  <2>3. ASSUME NEW p \in Projects,
               UNCHANGED Homes \/ Registry!MakeHome(p, Cwd[r]),
               \/ UNCHANGED answers
               \/ /\ p \in Owners(Cwd[r])'
                  /\ answers' = [answers EXCEPT ![Cwd[r]] = {p}]
        PROVE  Registry!Move
    <3>1. p \in Owners(Cwd[r])' => <<p, Cwd[r]>> \in explicit' \cup Homes'
      <4>1. ASSUME IInv', GivenOwned', NEW path \in Paths
            PROVE  <<p, path>> \in explicit' \cup Homes' <=> p \in Owners(path)'
        <5>1. Rooted(p, path)' => p \in Owners(path)'
          BY <4>1 DEF Rooted, Owners, IInv, References
        <5>2. <<p, path>> \in Homes' <=> Rooted(p, path)'
          BY DEF Homes
        <5> QED
          BY <4>1, <5>1, <5>2 DEF IInv, OwnersKnown, GivenOwned
      <4> QED
        BY <1>k, <2>1, <4>1
    <3>2. UNCHANGED answers \/ Registry!Reply(p, Cwd[r])
      BY <2>3, <3>1 DEF Registry!Reply
    <3> QED
      BY <2>1, <2>3, <3>2 DEF ResolverMeans, Registry!Move
  <2> QED
    BY <2>1, <2>2, <2>3 DEF ResolverMeans
<1>3. ASSUME NEW r \in Resolvers, Die(r)
      PROVE  UNCHANGED Registry!rvars
  BY <1>3, HomesOfScopes DEF Die, rows, Registry!rvars
<1>4. CASE UNCHANGED vars
  BY <1>4, HomesOfScopes DEF vars, Registry!rvars
<1> QED
  BY <1>1, <1>2, <1>3, <1>4 DEF Next

\* Registrations, resolutions and imports, in whatever order their
\* transactions come and wherever they die, implement a registry in which a
\* directory has one project for good, a project one home, and a directory one
\* answer.
THEOREM IdentityKeepsRegistry == Spec => KeepsRegistry
<1>1. Init => Registry!Start /\ GivenOwned
  BY DEF Init, Registry!Start, Homes, Rooted, GivenOwned
<1> QED
  BY <1>1, StepKeepsRegistry, GivenOwnedStep, Invariance, PTL
     DEF Spec, KeepsRegistry, Registry!Promise

\* The types of the registry, whatever implements it.
RegistryTyped ==
  /\ explicit \in SUBSET (Projects \X Paths)
  /\ Homes \in SUBSET (Projects \X Paths)
  /\ DOMAIN answers = Paths

\* A move of the registry keeps it sound.
LEMMA RegistryMoves ==
  ASSUME RegistryTyped, Registry!RegistrySound, [Registry!Move]_(Registry!rvars)
  PROVE  RegistryTyped' /\ Registry!RegistrySound'
<1>1. CASE UNCHANGED Registry!rvars
  BY <1>1 DEF Registry!rvars, RegistryTyped, Registry!RegistrySound
<1>2. ASSUME NEW p \in Projects, NEW ps \in SUBSET Paths,
             \A path \in ps : Registry!Free(p, path),
             explicit' \cup Homes' = explicit \cup Homes \cup ({p} \X ps)
      PROVE  \A path \in Paths, q, r \in Projects :
               <<q, path>> \in explicit' \cup Homes' /\ <<r, path>> \in explicit' \cup Homes'
               => q = r
  BY <1>2 DEF Registry!RegistrySound, Registry!Free
<1>3. ASSUME NEW p \in Projects, NEW path \in Paths, Registry!MakeHome(p, path)
      PROVE  /\ Homes' \in SUBSET (Projects \X Paths)
             /\ \A q \in Projects, a, b \in Paths :
                  <<q, a>> \in Homes' /\ <<q, b>> \in Homes' => a = b
  BY <1>3 DEF Registry!MakeHome, Registry!RegistrySound, RegistryTyped
<1>4. ASSUME NEW p \in Projects, NEW ps \in SUBSET Paths, Registry!Give(p, ps),
             UNCHANGED Homes \/ \E path \in ps : Registry!MakeHome(p, path),
             UNCHANGED answers
      PROVE  RegistryTyped' /\ Registry!RegistrySound'
  <2>1. /\ explicit' = explicit \cup ({p} \X ps)
        /\ \A path \in ps : Registry!Free(p, path)
    BY <1>4 DEF Registry!Give
  <2>2. /\ explicit' \cup Homes' = explicit \cup Homes \cup ({p} \X ps)
        /\ Homes \subseteq Homes'
    BY <1>4, <2>1 DEF Registry!MakeHome
  <2>3. /\ Homes' \in SUBSET (Projects \X Paths)
        /\ \A q \in Projects, a, b \in Paths :
             <<q, a>> \in Homes' /\ <<q, b>> \in Homes' => a = b
    BY <1>3, <1>4 DEF Registry!RegistrySound, RegistryTyped
  <2>4. RegistryTyped'
    BY <1>4, <2>1, <2>3 DEF RegistryTyped
  <2>5. \A path \in Paths : \A q \in answers'[path] : <<q, path>> \in explicit' \cup Homes'
    BY <1>4, <2>1, <2>2 DEF Registry!RegistrySound
  <2> QED BY <1>2, <2>1, <2>2, <2>3, <2>4, <2>5 DEF Registry!RegistrySound
<1>5. ASSUME NEW p \in Projects, NEW path \in Paths, UNCHANGED explicit,
             UNCHANGED Homes \/ Registry!MakeHome(p, path),
             UNCHANGED answers \/ Registry!Reply(p, path)
      PROVE  RegistryTyped' /\ Registry!RegistrySound'
  <2>1. Homes \subseteq Homes'
    BY <1>5 DEF Registry!MakeHome
  <2>2. /\ Homes' \in SUBSET (Projects \X Paths)
        /\ \A q \in Projects, a, b \in Paths :
             <<q, a>> \in Homes' /\ <<q, b>> \in Homes' => a = b
    BY <1>3, <1>5 DEF Registry!RegistrySound, RegistryTyped
  <2>3. \A x \in Paths, q, r \in Projects :
          <<q, x>> \in explicit' \cup Homes' /\ <<r, x>> \in explicit' \cup Homes' => q = r
    <3>1. CASE UNCHANGED Homes
      BY <1>5, <3>1 DEF Registry!RegistrySound
    <3>2. CASE Registry!MakeHome(p, path)
      <4>1. /\ explicit' \cup Homes' = explicit \cup Homes \cup ({p} \X {path})
            /\ Registry!Free(p, path) /\ {path} \in SUBSET Paths
        BY <1>5, <3>2 DEF Registry!MakeHome
      <4> QED BY <1>2, <4>1
    <3> QED BY <1>5, <3>1, <3>2
  <2>4. /\ DOMAIN answers' = Paths
        /\ \A x \in Paths : \A q \in answers'[x] : <<q, x>> \in explicit' \cup Homes'
    <3>1. CASE UNCHANGED answers
      BY <1>5, <2>1, <3>1 DEF Registry!RegistrySound, RegistryTyped
    <3>2. CASE Registry!Reply(p, path)
      BY <1>5, <2>1, <3>2 DEF Registry!Reply, Registry!RegistrySound, RegistryTyped
    <3> QED BY <1>5, <3>1, <3>2
  <2>5. RegistryTyped'
    BY <1>5, <2>2, <2>4 DEF RegistryTyped
  <2> QED BY <2>2, <2>3, <2>4, <2>5 DEF Registry!RegistrySound
<1> QED BY <1>1, <1>4, <1>5 DEF Registry!Move

\* The promise is worth something: whatever keeps it gives a directory one
\* project, a project one home and a directory one answer.
THEOREM RegistryPromiseIsSound == KeepsRegistry => []Registry!RegistrySound
<1>1. Registry!Start => RegistryTyped /\ Registry!RegistrySound
  BY DEF Registry!Start, RegistryTyped, Registry!RegistrySound
<1> QED
  BY <1>1, RegistryMoves, PTL DEF KeepsRegistry, Registry!Promise

-----------------------------------------------------------------------------
(* Directories that are lost                                               *)

\* The projects a resolver tries by name are those of its directory's name.
CallsTried ==
  \A r \in Resolvers :
    /\ call[r].op \in {"root", "attach"} => call[r].project = Plain(NameOf[Cwd[r]])
    /\ call[r].op = "create" =>
         call[r].project \in {Plain(NameOf[Cwd[r]]), Hashed(Cwd[r])}

\* A step of resolve_project is about its own call only.
LEMMA OwnCall ==
  ASSUME NEW r \in Resolvers, ResolverStep(r) \/ Die(r)
  PROVE  \E c : Goto(r, c)
BY DEF ResolverStep, ReadScope, ReadAlias, Adopt, ReadSlug, ReadRoot, Attach,
   Create, Settle, RegisterPath, RegisterName, Refused, Die, Answer

\* No step of resolve_project deletes a row.
LEMMA RowsGrow ==
  ASSUME NEW r \in Resolvers, ResolverStep(r) \/ Die(r)
  PROVE  projects \subseteq projects' /\ scopes \subseteq scopes'
BY DEF ResolverStep, ReadScope, ReadAlias, Adopt, ReadSlug, ReadRoot, Attach,
   Create, Settle, RegisterPath, RegisterName, Refused, Die, rows,
   CreateScope, CreateProject

\* Calls try projects of the right name.
LEMMA CallsTriedStep ==
  ASSUME TypeOK, CallsTried, [Next]_vars
  PROVE  CallsTried'
<1>1. ASSUME NEW r \in Resolvers, NEW c, Goto(r, c),
             c.op \in {"root", "attach"} => c.project = Plain(NameOf[Cwd[r]]),
             c.op = "create" => c.project \in {Plain(NameOf[Cwd[r]]), Hashed(Cwd[r])}
      PROVE  CallsTried'
  <2>1. call'[r] = c /\ \A q \in Resolvers \ {r} : call'[q] = call[q]
    BY <1>1 DEF Goto, TypeOK
  <2> QED
    BY <1>1, <2>1 DEF CallsTried
<1>2. ASSUME UNCHANGED call
      PROVE  CallsTried'
  BY <1>2 DEF CallsTried
<1>3. CASE ClientStep
  BY <1>2, <1>3 DEF ClientStep, CreateProjectCall, CreateScopeCall, AliasCall, Import
<1>4. ASSUME NEW r \in Resolvers, ResolverStep(r)
      PROVE  CallsTried'
  <2>1. CASE ReadScope(r)
    BY <1>1, <2>1 DEF ReadScope
  <2>2. CASE ReadAlias(r)
    BY <1>1, <2>2 DEF ReadAlias
  <2>3. CASE ReadSlug(r)
    BY <1>1, <2>3 DEF ReadSlug
  <2>4. CASE ReadRoot(r)
    BY <1>1, <2>4 DEF ReadRoot, CallsTried
  <2>5. CASE Adopt(r) \/ Create(r) \/ Settle(r) \/ RegisterPath(r)
    BY <1>1, <2>5 DEF Adopt, Create, Settle, RegisterPath
  <2>6. CASE Attach(r) \/ RegisterName(r) \/ Refused(r)
    BY <1>1, <2>6 DEF Attach, RegisterName, Refused, Answer, Idle
  <2> QED
    BY <1>4, <2>1, <2>2, <2>3, <2>4, <2>5, <2>6 DEF ResolverStep
<1>5. ASSUME NEW r \in Resolvers, Die(r)
      PROVE  CallsTried'
  BY <1>1, <1>5 DEF Die, Idle
<1>6. CASE UNCHANGED vars
  BY <1>2, <1>6 DEF vars
<1> QED
  BY <1>3, <1>4, <1>5, <1>6 DEF Next

\* A resolver gives no directory but its own to a project.
LEMMA OthersKeepOwners ==
  ASSUME IInv, NEW r \in Resolvers, ResolverStep(r),
         NEW path \in Paths, path # Cwd[r]
  PROVE  Owners(path)' = Owners(path)
<1> USE DEF IInv
<1>1. ASSUME NEW p \in Projects, NEW label \in Label,
             CreateScope(p, label, Cwd[r]), UNCHANGED <<projects, aliases>>
      PROVE  Owners(path)' = Owners(path)
  <2>1. Cwd[r] \in Paths \cup {NoPath}
    BY Slugs
  <2>2. Claims(p, {Cwd[r]} \ {NoPath})
    BY <1>1, <2>1, CreateScopeClaims
  <2> QED
    BY <2>2 DEF Claims
<1>2. CASE ReadScope(r) \/ ReadAlias(r) \/ ReadSlug(r) \/ ReadRoot(r) \/ Refused(r)
  BY <1>2, OwnersKept DEF ReadScope, ReadAlias, ReadSlug, ReadRoot, Refused
<1>3. CASE Adopt(r) \/ Attach(r) \/ Settle(r)
  <2>1. call[r].project \in Projects
    BY <1>3, CallProject DEF Adopt, Attach, Settle, TypeOK
  <2> QED
    BY <1>1, <1>3, <2>1, Labels, Slugs DEF Adopt, Attach, Settle
<1>4. CASE Create(r)
  <2>1. call[r].project \in Projects
    BY <1>4, CallProject DEF Create, TypeOK
  <2> QED
    BY <1>4, <2>1, CreateProjectClaims DEF Create
<1>5. CASE RegisterPath(r) \/ RegisterName(r)
  <2>1. \E a : /\ aliases' = aliases \cup {<<call[r].project, a>>}
               /\ UNCHANGED <<projects, scopes>> /\ a # path
    BY <1>5, Slugs, PathsAssumption DEF RegisterPath, RegisterName, SetPathAlias
  <2> QED
    BY <2>1 DEF Owners
<1> QED
  BY <1>2, <1>3, <1>4, <1>5 DEF ResolverStep

\* What is left to a resolver whose directory is lost: reads, and an attempt to
\* create a project that exists.
LEMMA LostCall ==
  ASSUME IInv, CallsTried, NEW r \in Resolvers, Lost(Cwd[r]),
         ResolverStep(r) \/ Die(r)
  PROVE  UNCHANGED rows /\ call'[r].op \notin {"attach", "settle"}
<1> DEFINE path == Cwd[r]
<1>1. /\ path \in Paths /\ Owners(path) = {} /\ Hashed(path) \in projects
      /\ Plain(NameOf[path]) \in projects
      /\ \E s \in scopes : s.project = Plain(NameOf[path]) /\ s.path # NoPath
      /\ call[r].op \notin {"attach", "settle"}
  BY Slugs DEF Lost, Stranded, IInv, References
<1>2. call[r].op \notin {"adopt", "path", "name"}
  BY <1>1 DEF IInv, CallsOwn
<1>3. ~Create(r)
  BY <1>1 DEF Create, CreateProject, CallsTried
<1>4. \A c : Goto(r, c) => call'[r] = c
  BY DEF Goto, IInv, TypeOK
<1>5. CASE ReadScope(r)
  <2>1. {s \in scopes : s.path = path} = {}
    BY <1>1 DEF Owners, IInv, References
  <2> QED
    BY <1>4, <1>5, <2>1 DEF ReadScope
<1>6. CASE ReadAlias(r)
  <2>1. {p \in projects : <<p, path>> \in aliases} = {}
    BY <1>1 DEF Owners
  <2>2. UNCHANGED rows /\ Goto(r, [op |-> "slug"])
    BY <1>6, <2>1 DEF ReadAlias
  <2>3. call'[r] = [op |-> "slug"]
    BY <1>4, <2>2
  <2> QED
    BY <2>2, <2>3
<1>7. CASE ReadSlug(r)
  <2>1. UNCHANGED rows /\ Goto(r, [op |-> "root", project |-> Plain(NameOf[path])])
    BY <1>1, <1>7 DEF ReadSlug
  <2> QED
    BY <1>4, <2>1
<1>8. CASE ReadRoot(r)
  <2>1. call[r].project = Plain(NameOf[path])
    BY <1>8 DEF ReadRoot, CallsTried
  <2>2. UNCHANGED rows /\ Goto(r, [op |-> "create", project |-> Hashed(path)])
    BY <1>1, <1>8, <2>1 DEF ReadRoot
  <2> QED
    BY <1>4, <2>2
<1>9. CASE Refused(r) \/ Die(r)
  BY <1>4, <1>9 DEF Refused, Die, Idle
<1> QED
  BY <1>1, <1>2, <1>3, <1>5, <1>6, <1>7, <1>8, <1>9
     DEF ResolverStep, Adopt, Attach, Settle, RegisterPath, RegisterName

\* A lost directory stays lost whatever resolvers do.
LEMMA LostStep ==
  ASSUME IInv, CallsTried, NEW path \in Paths, Lost(path),
         NEW r \in Resolvers, ResolverStep(r) \/ Die(r)
  PROVE  Lost(path)'
<1>1. projects \subseteq projects' /\ scopes \subseteq scopes'
  BY RowsGrow
<1>2. Owners(path)' = {}
  <2>1. Owners(path) = {}
    BY DEF Lost, Stranded
  <2>2. CASE path = Cwd[r]
    BY <2>1, <2>2, LostCall, OwnersKept
  <2>3. CASE path # Cwd[r]
    BY <2>1, <2>3, OthersKeepOwners, OwnersKept DEF Die
  <2> QED
    BY <2>2, <2>3
<1>3. ASSUME NEW q \in Resolvers, Cwd[q] = path
      PROVE  call'[q].op \notin {"attach", "settle"}
  <2>1. CASE q = r
    BY <1>3, <2>1, LostCall
  <2>2. CASE q # r
    BY <1>3, <2>2, OwnCall DEF Goto, Lost, IInv, TypeOK
  <2> QED
    BY <2>1, <2>2
<1> QED
  BY <1>1, <1>2, <1>3 DEF Lost, Stranded

\* Once the project with the digest of a directory exists without it, and the
\* project of its name has a directory, resolve_project gets nowhere by itself:
\* no interleaving of reads, transactions and deaths ends that, only a client.
THEOREM LostIsForGood == Spec => LostUntilRegistered
<1>1. Init => CallsTried
  BY DEF Init, CallsTried, Idle
<1>2. IInv /\ CallsTried /\ [Next]_vars =>
        [\A path \in Paths : Lost(path) => Lost(path)' \/ ClientStep]_vars
  <2> SUFFICES ASSUME IInv, CallsTried, Next, NEW path \in Paths, Lost(path),
                      ~ClientStep
               PROVE  Lost(path)'
    OBVIOUS
  <2> QED
    BY LostStep DEF Next
<1>3. IInv /\ CallsTried /\ [Next]_vars => CallsTried'
  BY CallsTriedStep DEF IInv
<1> QED
  BY <1>1, <1>2, <1>3, Invariance, PTL DEF Spec, LostUntilRegistered
=============================================================================
