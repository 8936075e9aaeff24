------------------------------ MODULE Hashing ------------------------------
(***************************************************************************)
(* Calls of shake256 (Sponge) by the derivations of core/ (Preimages), one *)
(* after the other, and what they are answered.                            *)
(***************************************************************************)
EXTENDS Preimages

CONSTANT MaxCalls      \* bound: calls of a behaviour

ASSUME HashingAssumption == MaxCalls \in Nat

VARIABLES request,     \* the call in progress
          answers      \* the calls that returned, with what they returned

vars == <<input, output_size, offset, absorbed, produced, output, pc, request, answers>>

Range(s) == {s[n] : n \in DOMAIN s}

NoRequest == [kind |-> "none"]

Init == Idle /\ request = NoRequest /\ answers = <<>>

Ask == \E r \in Requests :
  /\ Len(answers) < MaxCalls
  /\ Start(Preimage(r), OutputSize(r))
  /\ request' = r
  /\ UNCHANGED answers

Hash == (AbsorbBlock \/ AbsorbLast \/ Squeeze) /\ UNCHANGED <<request, answers>>

Answer ==
  /\ Return
  /\ answers' = Append(answers, [request |-> request, digest |-> <<absorbed, output>>])
  /\ UNCHANGED request

Next == Ask \/ Hash \/ Answer

Spec == Init /\ [][Next]_vars
FairSpec == Spec /\ WF_vars(Hash \/ Answer)

----------------------------------------------------------------------------
(* Properties *)

TypeOK ==
  /\ SpongeTypeOK
  /\ request \in Requests \union {NoRequest}
  /\ pc # "idle" => request \in Requests /\ input = Preimage(request)
                      /\ output_size = OutputSize(request)

\* Two derivations are given the same digest exactly if they are the same one with
\* the same arguments: the domains and the layout of the fields keep the kinds, the
\* profiles (of whose names five characters are hashed) and the fields apart, and
\* the digest of a header leaves out its nonce and its result, and nothing else
\* (header.cpp:53-75, epoch_seed.cpp:32-44, epoch_cache.cpp:52-63,
\* get_item.cpp:49-60, scratch.cpp:57-71, pow.cpp:71-84).
NoCollision ==
  \A x, y \in {a \in Range(answers) : a.request \in Derivations} :
    x.digest = y.digest <=> Covered(x.request) = Covered(y.request)

\* Every call of shake256 returns, whatever the lengths.
EveryCallReturns == pc = "absorb" ~> pc = "returned"
=============================================================================
