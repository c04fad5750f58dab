----------------------------- MODULE SP1Programs -----------------------------
(***************************************************************************)
(* The four programs run in the SP1 zkVM.  A program either panics or      *)
(* commits one output; Commits...(o) says that some inputs make it commit  *)
(* o.  An SP1 proof that the verifier contract accepts shows exactly that  *)
(* (the soundness of SP1 is assumed).                                      *)
(***************************************************************************)
EXTENDS TendermintVerifier

\* The fraction of env must be one TrustThresholdFraction::new takes, from a
\* third to one: the conversion unwraps.
ValidThreshold(t) ==
    /\ t.denominator > 0
    /\ t.numerator <= t.denominator
    /\ 3 * t.numerator >= t.denominator

\* Mutant: the program takes only the revision height from the header.
CommitsUpdateClientAnyRevision(o) ==
    /\ ValidThreshold(o.env.trustThreshold)
    /\ \E b \in Blocks :
        /\ VerifyHeader(o.trustedConsensusState, o.trustedHeight, b, o.env)
        /\ o.newHeight.revisionHeight = b.height
        /\ o.newConsensusState = ConsensusStateOf(b)

\* update_client: the trusted state and height come from the caller, the new
\* ones from the verified header.
CommitsUpdateClient(o) ==
    /\ ValidThreshold(o.env.trustThreshold)
    /\ \E b \in Blocks :
        /\ VerifyHeader(o.trustedConsensusState, o.trustedHeight, b, o.env)
        /\ o.newHeight = HeightOf(b)
        /\ o.newConsensusState = ConsensusStateOf(b)

\* membership: request_len is one non-zero byte, every pair is verified.
CommitsKVPairs(root, kvPairs) ==
    /\ Len(kvPairs) \in 1..UINT8_MAX
    /\ \A i \in 1..Len(kvPairs) : Proves(root, kvPairs[i])

CommitsMembership(o) == CommitsKVPairs(o.commitmentRoot, o.kvPairs)

CommitsUcAndMembership(o) ==
    /\ CommitsUpdateClient(o.updateClientOutput)
    /\ CommitsKVPairs(o.updateClientOutput.newConsensusState.root, o.kvPairs)

\* What verify_misbehaviour looks trusted states up in, whatever path it gives: a
\* map keyed by trusted revision height, whose second entry replaces an equal
\* first.
TrustedConsensusStates(o) ==
    [h \in {o.trustedHeight1.revisionHeight, o.trustedHeight2.revisionHeight} |->
        IF h = o.trustedHeight2.revisionHeight THEN o.trustedConsensusState2
                                               ELSE o.trustedConsensusState1]

CommitsMisbehaviour(o) ==
    LET Verifies(height, b) ==
            VerifyMisbehaviourHeader(
                TrustedConsensusStates(o)[height.revisionHeight], height, b, o.env)
    IN  /\ ValidThreshold(o.env.trustThreshold)
        /\ \E b1, b2 \in Blocks :
               /\ b1.height >= b2.height
               /\ Verifies(o.trustedHeight1, b1)
               /\ Verifies(o.trustedHeight2, b2)
               /\ Conflicting(b1, b2)

\* ISP1Verifier.verifyProof: the program named by the key commits the values.
VerifyProof(p) ==
    /\ p.proof = "proved"
    /\ \/ /\ p.vKey = UPDATE_CLIENT_PROGRAM_VKEY
          /\ p.publicValues \in UpdateClientOutput
          /\ CommitsUpdateClient(p.publicValues)
       \/ /\ p.vKey = MEMBERSHIP_PROGRAM_VKEY
          /\ p.publicValues \in MembershipOutput
          /\ CommitsMembership(p.publicValues)
       \/ /\ p.vKey = UPDATE_CLIENT_AND_MEMBERSHIP_PROGRAM_VKEY
          /\ p.publicValues \in UcAndMembershipOutput
          /\ CommitsUcAndMembership(p.publicValues)
       \/ /\ p.vKey = MISBEHAVIOUR_PROGRAM_VKEY
          /\ p.publicValues \in MisbehaviourOutput
          /\ CommitsMisbehaviour(p.publicValues)
=============================================================================
