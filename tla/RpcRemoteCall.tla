---------------------------- MODULE RpcRemoteCall ----------------------------
(* Rpc keeps the promise of RemoteCall: the refinement mapping.             *)
EXTENDS Rpc

\* What handlers answered to i: the responses its runs have pushed.
Offered(i) == {a \in Answer : a[2] <= run[<<i, a[1]>>].pushes}

Promise == INSTANCE RemoteCall WITH offered <- [i \in Id |-> Offered(i)]

\* rpc.send returns at most once, with a response some run pushed for this very
\* request, and the first response heard is the one it returns, whatever other
\* calls are open and however often the transport repeats requests and responses.
ImplementsRemoteCall == Promise!Spec

\* What is handled was asked for: no run and no request of a call not made.
Asked ==
  /\ \A r \in Run : run[r].phase # "none" => call[r[1]] # "new"
  /\ \A m \in channel : call[m.id] # "new"

\* A response on its way was pushed by a run of its request.
WasPushed == \A m \in channel : m.kind = "res" => m.answer \in Offered(m.id)

\* The invariant behind the proofs: every open call has its entry, and what is on its
\* way speaks of calls that were made and of responses that were pushed.
Inductive == TypeOK /\ MapHoldsOpenCalls /\ Asked /\ WasPushed
=============================================================================
