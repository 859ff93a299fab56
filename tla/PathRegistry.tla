---------------------------- MODULE PathRegistry ----------------------------
(***************************************************************************)
(* What a registry of directories promises, with no process, slug or       *)
(* transaction in sight.  A directory belongs to a project because clients *)
(* have given it to the project or because it is the project's home, and   *)
(* to one project only; a project has one home.  Nothing is taken away.    *)
(* Whoever asks for the project of a directory is told the one it belongs  *)
(* to.                                                                     *)
(***************************************************************************)
CONSTANTS Projects, Paths

VARIABLES
  given,   \* the projects and directories that clients have put together
  homes,   \* the projects and the directories that are their homes
  answers  \* the projects answered for each directory

rvars == <<given, homes, answers>>

Start == given = {} /\ homes = {} /\ answers = [path \in Paths |-> {}]

\* Nobody but p has the directory.
Free(p, path) ==
  \A q \in Projects : <<q, path>> \in given \cup homes => q = p

Give(p, ps) ==
  /\ \A path \in ps : Free(p, path)
  /\ given' = given \cup ({p} \X ps)

MakeHome(p, path) ==
  /\ Free(p, path)
  /\ \A home \in Paths : <<p, home>> \notin homes
  /\ homes' = homes \cup {<<p, path>>}

\* The one answer for a directory.
Reply(p, path) ==
  /\ <<p, path>> \in given' \cup homes'
  /\ answers' = [answers EXCEPT ![path] = {p}]

Move ==
  \/ \E p \in Projects, ps \in SUBSET Paths :
       /\ Give(p, ps)
       /\ UNCHANGED homes \/ \E path \in ps : MakeHome(p, path)
       /\ UNCHANGED answers
  \/ \E p \in Projects, path \in Paths :
       /\ UNCHANGED given
       /\ UNCHANGED homes \/ MakeHome(p, path)
       /\ UNCHANGED answers \/ Reply(p, path)

Promise == Start /\ [][Move]_rvars

-----------------------------------------------------------------------------
(* What follows from the promise                                           *)

\* A directory belongs to one project, a project has one home, and answers
\* name the project the directory belongs to.
RegistrySound ==
  /\ \A path \in Paths, p, q \in Projects :
       <<p, path>> \in given \cup homes /\ <<q, path>> \in given \cup homes => p = q
  /\ \A p \in Projects, a, b \in Paths :
       <<p, a>> \in homes /\ <<p, b>> \in homes => a = b
  /\ \A path \in Paths : \A p \in answers[path] : <<p, path>> \in given \cup homes
=============================================================================
