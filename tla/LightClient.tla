----------------------------- MODULE LightClient -----------------------------
(***************************************************************************)
(* What a light client promises, whatever proves it: a growing set of      *)
(* consensus states it trusts, an end to it all when it was shown two      *)
(* contradicting headers, and answers about the store of the chain that    *)
(* the states it trusts commit to.                                         *)
(*                                                                         *)
(* SP1ICS07Tendermint implements it: proofs, public values, the proof      *)
(* cache, errors, messages and the order of the checks are not seen here.  *)
(***************************************************************************)
EXTENDS Integers

CONSTANTS
    Headers,            \* committed headers of the chain followed
    HeightOf(_),        \* of a header
    StateOf(_),         \* the consensus state of a header
    Vouches(_, _, _),   \* a state trusted at a height vouches for a header
    Expired(_, _),      \* a state can vouch for nothing any more at a time
    Contradict(_, _),   \* of two headers no correct chain has both
    Facts,              \* what can be asked about the store
    Holds(_, _),        \* a consensus state commits to a store with a fact
    Genesis,            \* the header trusted at the beginning
    Start,              \* the time of the beginning
    NoAnswer

VARIABLES
    trusted,    \* height -> consensus state
    latest,     \* the highest height there is a trusted state of
    frozen,
    now,
    answer      \* the last answer given

vars == <<trusted, latest, frozen, now, answer>>

Highest(heights) == CHOOSE h \in heights : \A other \in heights : other <= h

\* A state the client trusts, and that is young enough, vouches for x.
Vouched(x) ==
    \E t \in DOMAIN trusted :
        /\ t < HeightOf(x)
        /\ ~Expired(trusted[t], now)
        /\ Vouches(trusted[t], t, x)

Known(x) ==
    \/ HeightOf(x) \in DOMAIN trusted /\ trusted[HeightOf(x)] = StateOf(x)
    \/ Vouched(x)

Init ==
    /\ trusted = [h \in {HeightOf(Genesis)} |-> StateOf(Genesis)]
    /\ latest = HeightOf(Genesis)
    /\ frozen = FALSE
    /\ now = Start
    /\ answer = NoAnswer

\* States are added in any order of heights and are never replaced.
Extend ==
    /\ \E x \in Headers :
           /\ HeightOf(x) \notin DOMAIN trusted
           /\ Vouched(x)
           /\ trusted' = [h \in DOMAIN trusted \cup {HeightOf(x)} |->
                             IF h = HeightOf(x) THEN StateOf(x) ELSE trusted[h]]
    /\ latest' = Highest(DOMAIN trusted')

Keep == UNCHANGED <<trusted, latest>>

\* An answer is about a state that is trusted once it is given.
Reply ==
    \E h \in DOMAIN trusted', fact \in Facts :
        /\ Holds(trusted'[h], fact)
        /\ answer' = [height |-> h, fact |-> fact]

Serve ==
    /\ ~frozen
    /\ Extend \/ Keep
    /\ Reply \/ answer' = NoAnswer
    /\ UNCHANGED <<frozen, now>>

Freeze ==
    /\ ~frozen
    /\ \E x, y \in Headers : Known(x) /\ Known(y) /\ Contradict(x, y)
    /\ frozen' = TRUE
    /\ answer' = NoAnswer
    /\ UNCHANGED <<trusted, latest, now>>

Refuse ==
    /\ answer' = NoAnswer
    /\ UNCHANGED <<trusted, latest, frozen, now>>

Tick ==
    /\ now' > now
    /\ UNCHANGED <<trusted, latest, frozen, answer>>

Next == Serve \/ Freeze \/ Refuse \/ Tick

Spec == Init /\ [][Next]_vars
=============================================================================
