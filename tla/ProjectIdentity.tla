-------------------------- MODULE ProjectIdentity --------------------------
(***************************************************************************)
(* Which project a directory belongs to: create_project, create_scope,     *)
(* set_project_alias and resolve_project of                                *)
(* persistence/project_evidence.py, and the import of a project            *)
(* (persistence/transfer.py).                                              *)
(*                                                                         *)
(* resolve_project finds or makes the project of a directory in a series   *)
(* of reads and transactions, one action each; other processes act, and    *)
(* the caller may die, between any two.  The slug of a project is unique   *)
(* and never changes, so it stands for the project.                        *)
(***************************************************************************)
EXTENDS Naturals

CONSTANTS
  Paths,       \* canonical directories
  NoPath,      \* scopes.path is NULL
  Names,       \* last components of paths, names of projects
  NameOf,      \* the last component of each path
  ScopeNames,  \* names clients give to scopes they create
  Resolvers,   \* processes that keep resolving a directory
  Cwd,         \* the directory of each
  MaxClients,  \* bound: calls of clients that register something
  MaxDeaths    \* bound: calls that die

ASSUME PathsAssumption ==
  /\ NoPath \notin Paths
  /\ Paths \cap Names = {}
  /\ NameOf \in [Paths -> Names]
  /\ Cwd \in [Resolvers -> Paths]
  /\ MaxClients \in Nat
  /\ MaxDeaths \in Nat

VARIABLES
  projects,  \* rows of projects
  scopes,    \* rows of scopes
  aliases,   \* rows of project_aliases: a project and a path or a name
  call,      \* the call in progress of each resolver
  explicit,  \* history: projects and paths that clients put together
  answers,   \* history: the projects resolve_project answered, per path
  clients,   \* history: calls of clients so far
  deaths     \* history: calls that have died

rows == <<projects, scopes, aliases>>
vars == <<projects, scopes, aliases, call, explicit, answers, clients, deaths>>

\* A slug is the name, or the name with the digest of a path.
Plain(name) == [name |-> name, digest |-> NoPath]
Hashed(path) == [name |-> NameOf[path], digest |-> path]
Projects == [name : Names, digest : Paths \cup {NoPath}]

\* The scope of the workspace a project was made for, or of a further one.
Root == [label |-> "__root__", digest |-> NoPath]
Workspace(path) == [label |-> "__workspace__", digest |-> path]
Label == {Root} \cup {Workspace(path) : path \in Paths} \cup ScopeNames
Scope == [project : Projects, label : Label, path : Paths \cup {NoPath}]

Idle == [op |-> "idle"]
Call == {Idle}
  \cup [op : {"alias", "slug"}]
  \cup [op : {"adopt", "root", "attach", "create", "settle", "path", "name"},
        project : Projects]

TypeOK ==
  /\ projects \in SUBSET Projects
  /\ scopes \in SUBSET Scope
  /\ aliases \in SUBSET (Projects \X (Paths \cup Names))
  /\ call \in [Resolvers -> Call]
  /\ explicit \in SUBSET (Projects \X Paths)
  /\ answers \in [Paths -> SUBSET Projects]
  /\ clients \in 0..MaxClients
  /\ deaths \in 0..MaxDeaths

Init ==
  /\ projects = {} /\ scopes = {} /\ aliases = {} /\ explicit = {}
  /\ call = [r \in Resolvers |-> Idle]
  /\ answers = [path \in Paths |-> {}]
  /\ clients = 0 /\ deaths = 0

-----------------------------------------------------------------------------
(* Transactions                                                            *)

Owners(path) ==
  {p \in projects : \/ <<p, path>> \in aliases
                    \/ \E s \in scopes : s.project = p /\ s.path = path}

\* Fault in Free: only the scopes are asked.
FreeOfScopes(p, path) ==
  \A s \in scopes : s.path = path => s.project = p

\* _require_path_ownership_available: no other project has the path, be it as
\* a scope or as an alias.
Free(p, path) == Owners(path) \subseteq {p}

\* Fault in MayInsert: a scope's label may be given twice.
MayInsertTwice(p, label, path) ==
  p \in projects /\ (path # NoPath => Free(p, path))

\* Foreign key, ownership, UNIQUE(project_id, name).
MayInsert(p, label, path) ==
  /\ p \in projects
  /\ path # NoPath => Free(p, path)
  /\ \/ \E s \in scopes : s.project = p /\ s.path = path /\ path # NoPath
     \/ \A s \in scopes : s.project = p => s.label # label

\* Fault in CreateScope: a scope without a directory gets its label for one.
CreateScopeLabelled(p, label, path) ==
  /\ MayInsert(p, label, path)
  /\ scopes' = scopes \cup
       {[project |-> p, label |-> label,
         path |-> IF path = NoPath THEN label ELSE path]}

\* Fault in CreateScope: a row that is there already is no error.
CreateScopeIgnoring(p, label, path) ==
  /\ p \in projects
  /\ IF MayInsert(p, label, path)
     THEN scopes' = scopes \cup
                      {[project |-> p, label |-> label, path |-> path]}
     ELSE UNCHANGED scopes

\* create_scope: the scope the project already has for the path, or a new one.
CreateScope(p, label, path) ==
  /\ MayInsert(p, label, path)
  /\ IF path # NoPath /\ \E s \in scopes : s.project = p /\ s.path = path
     THEN UNCHANGED scopes
     ELSE scopes' = scopes \cup
                      {[project |-> p, label |-> label, path |-> path]}

\* create_project: a row with a fresh slug, and its name as an alias.
CreateProject(p) ==
  /\ p \notin projects
  /\ projects' = projects \cup {p}
  /\ aliases' = aliases \cup {<<p, p.name>>}

\* Fault in SetPathAlias: the alias of another project is moved.
SetPathAliasMoves(p, path) ==
  /\ p \in projects
  /\ FreeOfScopes(p, path)
  /\ aliases' = {a \in aliases : a[2] # path} \cup {<<p, path>>}

\* set_project_alias of kind path.
SetPathAlias(p, path) ==
  /\ p \in projects
  /\ Free(p, path)
  /\ aliases' = aliases \cup {<<p, path>>}

-----------------------------------------------------------------------------
(* Calls of clients                                                        *)

ClientCalls == clients < MaxClients /\ clients' = clients + 1

CreateProjectCall(name) ==
  /\ ClientCalls
  /\ CreateProject(Plain(name))
  /\ UNCHANGED <<scopes, call, explicit, answers, deaths>>

CreateScopeCall(p, label, path) ==
  /\ ClientCalls
  /\ CreateScope(p, label, path)
  /\ explicit' = explicit \cup ({p} \X ({path} \ {NoPath}))
  /\ UNCHANGED <<projects, aliases, call, answers, deaths>>

AliasCall(p, path) ==
  /\ ClientCalls
  /\ SetPathAlias(p, path)
  /\ explicit' = explicit \cup {<<p, path>>}
  /\ UNCHANGED <<projects, scopes, call, answers, deaths>>

\* import_project: the project with the paths of its scopes and aliases, each
\* checked, in one transaction.  The labels are those of the exported scopes;
\* a resolver gives none to a project that has a scope with a path.
Import(p, own, known) ==
  /\ ClientCalls
  /\ p \notin projects
  /\ \A path \in own \cup known : Free(p, path)
  /\ projects' = projects \cup {p}
  /\ scopes' = scopes \cup
       {[project |-> p, label |-> Workspace(path), path |-> path] : path \in own}
  /\ aliases' = aliases \cup {<<p, p.name>>} \cup ({p} \X known)
  /\ explicit' = explicit \cup ({p} \X (own \cup known))
  /\ UNCHANGED <<call, answers, deaths>>

-----------------------------------------------------------------------------
(* resolve_project                                                         *)

Goto(r, c) == call' = [call EXCEPT ![r] = c]

Answer(r, p) ==
  /\ Goto(r, Idle)
  /\ answers' = [answers EXCEPT ![Cwd[r]] = @ \cup {p}]

\* First the scope with exactly this path: its project takes the directory's
\* identities once more.
ReadScope(r) ==
  LET found == {s \in scopes : s.path = Cwd[r]}
  IN  /\ call[r] = Idle
      /\ IF found = {} THEN Goto(r, [op |-> "alias"])
         ELSE \E s \in found : Goto(r, [op |-> "path", project |-> s.project])
      /\ UNCHANGED <<rows, explicit, answers, clients, deaths>>

\* Then the project that registered the path, if there is exactly one.
ReadAlias(r) ==
  LET found == {p \in projects : <<p, Cwd[r]>> \in aliases}
  IN  /\ call[r].op = "alias"
      /\ \/ \E p \in found : /\ found = {p}
                             /\ Goto(r, [op |-> "adopt", project |-> p])
         \/ /\ \A p \in found : found # {p}
            /\ Goto(r, [op |-> "slug"])
      /\ UNCHANGED <<rows, explicit, answers, clients, deaths>>

\* ... which gets a scope for it.
Adopt(r) ==
  LET p == call[r].project
  IN  /\ call[r].op = "adopt"
      /\ CreateScope(p, Workspace(Cwd[r]), Cwd[r])
      /\ Goto(r, [op |-> "path", project |-> p])
      /\ UNCHANGED <<projects, aliases, explicit, answers, clients, deaths>>

\* Then the project whose slug is the directory's name.
ReadSlug(r) ==
  LET p == Plain(NameOf[Cwd[r]])
  IN  /\ call[r].op = "slug"
      /\ Goto(r, [op |-> IF p \in projects THEN "root" ELSE "create",
                  project |-> p])
      /\ UNCHANGED <<rows, explicit, answers, clients, deaths>>

\* Fault in ReadRoot: the slug is kept.
ReadRootKeepsSlug(r) ==
  LET p == call[r].project
  IN  /\ call[r].op = "root"
      /\ IF \E s \in scopes : s.project = p /\ s.path # NoPath
         THEN Goto(r, [op |-> "create", project |-> p])
         ELSE Goto(r, [op |-> "attach", project |-> p])
      /\ UNCHANGED <<rows, explicit, answers, clients, deaths>>

\* If that has a directory already, a slug with a digest is taken instead.
ReadRoot(r) ==
  LET p == call[r].project
  IN  /\ call[r].op = "root"
      /\ IF \E s \in scopes : s.project = p /\ s.path # NoPath
         THEN Goto(r, [op |-> "create", project |-> Hashed(Cwd[r])])
         ELSE Goto(r, [op |-> "attach", project |-> p])
      /\ UNCHANGED <<rows, explicit, answers, clients, deaths>>

\* Otherwise it gets this one, and is the answer.
Attach(r) ==
  LET p == call[r].project
  IN  /\ call[r].op = "attach"
      /\ CreateScope(p, Root, Cwd[r])
      /\ Answer(r, p)
      /\ UNCHANGED <<projects, aliases, explicit, clients, deaths>>

\* Fault in Create: a project that is there already is taken for a new one.
CreateTakes(r) ==
  LET p == call[r].project
  IN  /\ call[r].op = "create"
      /\ projects' = projects \cup {p}
      /\ aliases' = aliases \cup {<<p, p.name>>}
      /\ Goto(r, [op |-> "settle", project |-> p])
      /\ UNCHANGED <<scopes, explicit, answers, clients, deaths>>

\* A new project ...
Create(r) ==
  LET p == call[r].project
  IN  /\ call[r].op = "create"
      /\ CreateProject(p)
      /\ Goto(r, [op |-> "settle", project |-> p])
      /\ UNCHANGED <<scopes, explicit, answers, clients, deaths>>

\* ... gets its directory in a second transaction ...
Settle(r) ==
  LET p == call[r].project
  IN  /\ call[r].op = "settle"
      /\ CreateScope(p, Root, Cwd[r])
      /\ Goto(r, [op |-> "path", project |-> p])
      /\ UNCHANGED <<projects, aliases, explicit, answers, clients, deaths>>

\* ... and its aliases, the path and the name, in two more.
RegisterPath(r) ==
  LET p == call[r].project
  IN  /\ call[r].op = "path"
      /\ SetPathAlias(p, Cwd[r])
      /\ Goto(r, [op |-> "name", project |-> p])
      /\ UNCHANGED <<projects, scopes, explicit, answers, clients, deaths>>

RegisterName(r) ==
  LET p == call[r].project
  IN  /\ call[r].op = "name"
      /\ p \in projects
      /\ aliases' = aliases \cup {<<p, NameOf[Cwd[r]]>>}
      /\ Answer(r, p)
      /\ UNCHANGED <<projects, scopes, explicit, clients, deaths>>

\* The transaction a call has come to is refused: it is rolled back, and the
\* call ends with an error.
Refused(r) ==
  LET p == call[r].project
  IN  /\ \/ call[r].op \in {"attach", "settle"} /\ ~MayInsert(p, Root, Cwd[r])
         \/ call[r].op = "adopt" /\ ~MayInsert(p, Workspace(Cwd[r]), Cwd[r])
         \/ call[r].op = "create" /\ p \in projects
         \/ call[r].op = "path" /\ ~Free(p, Cwd[r])
      /\ Goto(r, Idle)
      /\ UNCHANGED <<rows, explicit, answers, clients, deaths>>

\* The process dies, or is killed by the timeout of its host; what it has
\* committed stays.
Die(r) ==
  /\ call[r] # Idle
  /\ deaths < MaxDeaths /\ deaths' = deaths + 1
  /\ Goto(r, Idle)
  /\ UNCHANGED <<rows, explicit, answers, clients>>

-----------------------------------------------------------------------------
ResolverStep(r) ==
  \/ ReadScope(r) \/ ReadAlias(r) \/ Adopt(r) \/ ReadSlug(r) \/ ReadRoot(r)
  \/ Attach(r) \/ Create(r) \/ Settle(r) \/ RegisterPath(r) \/ RegisterName(r)
  \/ Refused(r)

ClientStep ==
  \/ \E name \in Names : CreateProjectCall(name)
  \/ \E p \in projects, label \in ScopeNames, path \in Paths \cup {NoPath} :
       CreateScopeCall(p, label, path)
  \/ \E p \in projects, path \in Paths : AliasCall(p, path)
  \/ \E p \in Projects, own, known \in SUBSET Paths : Import(p, own, known)

Next == ClientStep \/ \E r \in Resolvers : ResolverStep(r) \/ Die(r)

Spec == Init /\ [][Next]_vars

\* A resolver keeps calling, and in the end its calls stop dying.
Fairness == \A r \in Resolvers : WF_vars(ResolverStep(r))

FairSpec == Spec /\ Fairness

-----------------------------------------------------------------------------
(* What must hold                                                          *)

\* "A canonical path has one owner across both scopes.path and
\* project_aliases": no interleaving of registrations, resolutions and imports
\* gives it to two projects.
OnePathOwner == \A path \in Paths : \A p, q \in Owners(path) : p = q

\* Every answer for a directory, from whichever process and by whichever way
\* through resolve_project, is the one project that owns it.
AnswersAgree == \A path \in Paths : answers[path] \subseteq Owners(path)

\* Two directories are answered with one project only when a client has
\* registered at least one of them: a shared last component never merges them.
NamesDoNotMerge ==
  \A a, b \in Paths : \A p \in answers[a] \cap answers[b] :
    a = b \/ <<p, a>> \in explicit \/ <<p, b>> \in explicit

\* A project's home: the directory of its scope __root__, which is the one
\* resolve_project makes.
Rooted(p, path) ==
  \E s \in scopes : s.project = p /\ s.label = Root /\ s.path = path

Homes == {h \in Projects \X Paths : Rooted(h[1], h[2])}

Registry == INSTANCE PathRegistry WITH given <- explicit, homes <- Homes

\* Together with the resolutions that interleave with them and die, the calls
\* of clients implement the registry of PathRegistry: a directory that has a
\* project keeps it, a project gets one home only, and every answer for a
\* directory is the project it belongs to.
KeepsRegistry == Registry!Promise

\* A directory's project with the digest in its slug exists, but nobody owns
\* the directory: what is left of a resolution that died after Create.
Stranded(path) == Hashed(path) \in projects /\ Owners(path) = {}

\* Lost: in addition, the project named like the directory has a directory,
\* and no call is about to insert a scope for this one.
Lost(path) ==
  /\ Stranded(path)
  /\ \E s \in scopes : s.project = Plain(NameOf[path]) /\ s.path # NoPath
  /\ \A r \in Resolvers : Cwd[r] = path => call[r].op \notin {"attach", "settle"}

\* resolve_project does not find its way out of that again, whatever the
\* interleaving: only a client that registers the directory does.
LostUntilRegistered ==
  [][\A path \in Paths : Lost(path) => Lost(path)' \/ ClientStep]_vars

\* A process that keeps resolving its directory gets an answer in the end,
\* unless the directory stays stranded.
ResolvedOrStranded ==
  \A r \in Resolvers : <>(answers[Cwd[r]] # {}) \/ <>[]Stranded(Cwd[r])

\* resolve_project "resolves or registers a workspace": a process that keeps
\* calling it gets an answer in the end, although single calls die.
EventuallyResolved == \A r \in Resolvers : <>(answers[Cwd[r]] # {})
=============================================================================
