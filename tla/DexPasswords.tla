---------------------------- MODULE DexPasswords ----------------------------
(***************************************************************************)
(* cmd/grpcclient/grpcclien.go: each run of the program creates the one     *)
(* account test@example.com in Dex over gRPC, lists the accounts, checks    *)
(* the right password and a wrong one, and deletes the account; the first   *)
(* call that does not go as expected ends it (log.Fatalf).  Runs may        *)
(* overlap, and the answer to a call that Dex has carried out may be lost.  *)
(***************************************************************************)
EXTENDS Naturals, FiniteSets

CONSTANT Clients   \* the runs of the program

VARIABLES account,  \* Dex has the account
          call,     \* call[c]: the call that run c makes next
          leftBy    \* history: the runs that ended without deleting what they created

passwordVars == <<account, call, leftBy>>

\* The calls after CreatePassword.
Checks == {"list", "verify", "verifyWrong", "delete"}

After(s) == CASE s = "list" -> "verify" [] s = "verify" -> "verifyWrong" [] s = "verifyWrong" -> "delete"

PasswordTypeOK ==
  /\ account \in BOOLEAN
  /\ call \in [Clients -> {"dial", "create", "deleted", "failed"} \cup Checks]
  /\ leftBy \subseteq Clients

PasswordInit ==
  /\ account = FALSE
  /\ call = [c \in Clients |-> "dial"]
  /\ leftBy = {}

Go(c, from, to) == call[c] = from /\ call' = [call EXCEPT ![c] = to]

-----------------------------------------------------------------------------
(* Mutants *)

\* AlreadyExists is taken for success.
CreateOrFind(c) ==
  /\ Go(c, "create", "list")
  /\ account' = TRUE
  /\ UNCHANGED leftBy

-----------------------------------------------------------------------------
\* newDexClient; grpc.Dial does not wait for the connection.
Dial(c) == (Go(c, "dial", "create") \/ Go(c, "dial", "failed")) /\ UNCHANGED <<account, leftBy>>

\* CreatePassword creates the account unless there is one.
Create(c) ==
  /\ ~account
  /\ Go(c, "create", "list")
  /\ account' = TRUE
  /\ UNCHANGED leftBy

\* AlreadyExists, an error, or an error after Dex has created the account.
CreateFails(c) ==
  /\ Go(c, "create", "failed")
  /\ \/ UNCHANGED <<account, leftBy>>
     \/ ~account /\ account' = TRUE /\ leftBy' = leftBy \cup {c}

\* ListPasswords, whose answer is only printed, and the two verifications: the
\* right password verifies while the account is there, the wrong one never does.
Check(c) ==
  /\ call[c] \in Checks \ {"delete"}
  /\ call[c] = "verify" => account
  /\ Go(c, call[c], After(call[c]))
  /\ UNCHANGED <<account, leftBy>>

\* Any of those calls fails: the program ends before the delete.
Abort(c) ==
  /\ call[c] \in Checks
  /\ Go(c, call[c], "failed")
  /\ leftBy' = leftBy \cup {c}
  /\ UNCHANGED account

Delete(c) ==
  /\ account
  /\ Go(c, "delete", "deleted")
  /\ account' = FALSE
  /\ leftBy' = leftBy

\* The answer to the delete is lost.
DeleteUnanswered(c) ==
  /\ account
  /\ Go(c, "delete", "failed")
  /\ account' = FALSE
  /\ leftBy' = leftBy

PasswordNext ==
  \E c \in Clients :
    \/ Dial(c) \/ Create(c) \/ CreateFails(c) \/ Check(c)
    \/ Abort(c) \/ Delete(c) \/ DeleteUnanswered(c)

-----------------------------------------------------------------------------
(* Properties *)

\* The account works as a lock: of overlapping runs at most one is between its
\* create and its delete, and the account is there all that time, so the checks
\* never see the account of another run (grpcclien.go:57, 107).
AccountIsLock ==
  LET inside == {c \in Clients : call[c] \in Checks}
  IN  Cardinality(inside) <= 1 /\ (inside # {} => account)

\* An account that is there while no run works with it was left by a run that
\* failed after its create (grpcclien.go:64-94 return before line 107), and it
\* stays: no later run can begin with it.
ResidueExplained ==
  /\ account => leftBy # {} \/ \E c \in Clients : call[c] \in Checks
  /\ leftBy # {} /\ account => \A c \in Clients : call[c] \notin Checks
=============================================================================
