------------------------------ MODULE CodeGen ------------------------------
(***************************************************************************)
(* cmd/generatex.go: main makes the directories of the project, writes its  *)
(* files one after another from templates, ignores every error, and prints  *)
(* that the project was generated.  It can be killed anywhere, also inside  *)
(* a file, and run again over what it left.                                 *)
(***************************************************************************)
EXTENDS Naturals

CONSTANTS Calls,        \* how many generateFile calls main makes
          InDirectory,  \* the calls whose file is in a directory of its own
          MaxGenerations  \* bound: runs of main

ASSUME CallsAssumption ==
  Calls \in Nat \ {0} /\ InDirectory \subseteq 1 .. Calls /\ MaxGenerations \in Nat

VARIABLES directory,   \* the files whose directory exists
          file,        \* file[c]: what file c holds
          generating,  \* the file that is next, 0 no run, Calls + 1 all done
          opened,      \* os.Create of it has succeeded
          errors,      \* history: the files an error of this run was about
          announced,     \* history: this run has printed its success
          generations  \* runs so far

genVars == <<directory, file, generating, opened, errors, announced, generations>>

GenTypeOK ==
  /\ directory \subseteq 1 .. Calls
  /\ file \in [1 .. Calls -> {"absent", "partial", "complete"}]
  /\ generating \in 0 .. Calls + 1 /\ opened \in BOOLEAN /\ announced \in BOOLEAN
  /\ errors \subseteq 1 .. Calls /\ generations \in 0 .. MaxGenerations

GenInit ==
  /\ directory = (1 .. Calls) \ InDirectory
  /\ file = [c \in 1 .. Calls |-> "absent"]
  /\ generating = 0 /\ opened = FALSE /\ errors = {} /\ announced = FALSE /\ generations = 0

\* main goes on after generateFile has returned, whatever it returned.
Return == generating' = generating + 1 /\ opened' = FALSE
Fails == errors' = errors \cup {generating}
GenUnchanged == UNCHANGED <<directory, announced, generations>>
InCall == generating \in 1 .. Calls

-----------------------------------------------------------------------------
(* Mutants *)

\* A file that is there already is left alone.
CreateIfAbsent ==
  /\ InCall /\ ~opened
  /\ IF file[generating] # "absent" THEN Return /\ UNCHANGED <<file, errors>>
     ELSE \/ /\ generating \in directory
             /\ opened' = TRUE /\ file' = [file EXCEPT ![generating] = "partial"]
             /\ UNCHANGED <<generating, errors>>
          \/ Fails /\ Return /\ UNCHANGED file
  /\ GenUnchanged

-----------------------------------------------------------------------------
\* os.MkdirAll, four times; one that is there is no error.
Generate ==
  /\ generating \in {0, Calls + 1} /\ generations < MaxGenerations
  /\ generations' = generations + 1
  /\ generating' = 1 /\ opened' = FALSE /\ errors' = {} /\ announced' = FALSE
  /\ \E D \in SUBSET InDirectory : directory' = directory \cup D
  /\ UNCHANGED file

\* os.Create truncates the file, if there is a directory for it.
CreateFile ==
  /\ InCall /\ ~opened
  /\ \/ /\ generating \in directory
        /\ opened' = TRUE /\ file' = [file EXCEPT ![generating] = "partial"]
        /\ UNCHANGED <<generating, errors>>
     \/ Fails /\ Return /\ UNCHANGED file
  /\ GenUnchanged

\* tmpl.Execute and the deferred Close; after an error the file stays as it is.
ExecuteTemplate ==
  /\ InCall /\ opened
  /\ \/ file' = [file EXCEPT ![generating] = "complete"] /\ UNCHANGED errors
     \/ Fails /\ UNCHANGED file
  /\ Return /\ GenUnchanged

PrintSuccess ==
  /\ generating = Calls + 1 /\ ~announced /\ announced' = TRUE
  /\ UNCHANGED <<directory, file, generating, opened, errors, generations>>

GenKilled ==
  /\ InCall /\ generating' = 0 /\ opened' = FALSE
  /\ UNCHANGED <<directory, file, errors, announced, generations>>

GenNext == Generate \/ CreateFile \/ ExecuteTemplate \/ PrintSuccess \/ GenKilled

-----------------------------------------------------------------------------
(* Properties *)

\* When main prints its success, a file is complete unless an error of this run
\* was about it: what an earlier run left, killed or not, is made good
\* (generatex.go:121, 149-164).
CompleteUnlessFailed ==
  announced => \A c \in 1 .. Calls : file[c] = "complete" \/ c \in errors
=============================================================================
