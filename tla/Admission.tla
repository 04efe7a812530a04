------------------------------ MODULE Admission ------------------------------
(***************************************************************************)
(* References between resources.  An AgentProfile names a SecretRef, which  *)
(* is looked up when the profile is applied, before the write; nothing     *)
(* keeps the referent alive.  Compiling a Flow copies what its nodes refer *)
(* to into the plan, by one read after another, and a Run works with the   *)
(* copies.                                                                 *)
(***************************************************************************)
EXTENDS Naturals, FiniteSets

CONSTANTS Secrets, Nothing,
          MaxEdits   \* bound: writes by operators

VARIABLES secret,    \* SecretRef name -> its content, a number; 0 when absent
          profile,   \* the AgentProfile: the secret it names and its content, or Nothing
          change,    \* an Apply of the profile between its check and its write
          binding,   \* BindAction between its reads
          pinned,    \* the bindings of the stored plan, or Nothing
          used,      \* what the Run's call was given, or Nothing
          edits

admissionVars == <<secret, profile, change, binding, pinned, used, edits>>

AdmissionInit ==
    /\ secret = [s \in Secrets |-> 0]
    /\ profile = Nothing /\ change = Nothing
    /\ binding = Nothing /\ pinned = Nothing /\ used = Nothing
    /\ edits = 0

Edit == edits < MaxEdits /\ edits' = edits + 1

\* A SecretRef carries no reference to check.
WriteSecret(s) ==
    /\ Edit /\ secret' = [secret EXCEPT ![s] = edits + 1]
    /\ UNCHANGED <<profile, change, binding, pinned, used>>

DeleteSecret(s) ==
    /\ Edit /\ secret[s] # 0 /\ secret' = [secret EXCEPT ![s] = 0]
    /\ UNCHANGED <<profile, change, binding, pinned, used>>

\* Diagnostics of a profile: its secret exists in the namespace.
CheckProfile(s) ==
    /\ change = Nothing /\ Edit
    /\ secret[s] # 0
    /\ change' = [secret |-> s, content |-> edits + 1]
    /\ UNCHANGED <<secret, profile, binding, pinned, used>>

Write ==
    /\ change # Nothing
    /\ profile' = change /\ change' = Nothing
    /\ UNCHANGED <<secret, binding, pinned, used, edits>>

-----------------------------------------------------------------------------
\* BindAction reads the profile, then the secret that this copy of it names;
\* a missing one is a diagnostic and there is no plan.
BindProfile ==
    /\ binding = Nothing /\ pinned = Nothing /\ profile # Nothing
    /\ binding' = profile
    /\ UNCHANGED <<secret, profile, change, pinned, used, edits>>

BindSecret ==
    /\ binding # Nothing
    /\ LET s == binding.secret IN
       pinned' = IF secret[s] = 0 THEN pinned
                 ELSE [profile |-> binding, secret |-> s, content |-> secret[s]]
    /\ binding' = Nothing
    /\ UNCHANGED <<secret, profile, change, used, edits>>

\* Mutant: the call looks the secret up again.
ExecuteWithLiveSecret ==
    /\ pinned # Nothing
    /\ used' = [profile |-> pinned.profile, content |-> secret[pinned.secret]]
    /\ UNCHANGED <<secret, profile, change, binding, pinned, edits>>

\* executeAgent: boundAgentProfile and resolveBoundSecret look at the plan's
\* copies only; a secret the plan does not hold fails the call.
ExecuteAgent ==
    /\ pinned # Nothing
    /\ used' = IF pinned.profile.secret = pinned.secret
               THEN [profile |-> pinned.profile, content |-> pinned.content]
               ELSE [profile |-> pinned.profile, content |-> 0]
    /\ UNCHANGED <<secret, profile, change, binding, pinned, edits>>

AdmissionNext ==
    \/ \E s \in Secrets : WriteSecret(s) \/ DeleteSecret(s) \/ CheckProfile(s)
    \/ Write \/ BindProfile \/ BindSecret \/ ExecuteAgent

AdmissionSpec == AdmissionInit /\ [][AdmissionNext]_admissionVars

-----------------------------------------------------------------------------
(* Properties.                                                             *)

\* Every call of a Run finds the profile and the secret reference its plan was
\* bound to, and each call the same ones: no edit and no deletion reaches them,
\* whether it falls into the compilation or after it.
RunSeesPinnedCopies ==
    [][/\ used' # Nothing => used'.content # 0
       /\ used # Nothing => used' = used]_admissionVars
=============================================================================
