------------------------------- MODULE MCSmp -------------------------------
(* Instantiates the cross-core fabric for TLC. *)
EXTENDS Smp

\* The three envelope types of smp_message_queue::submit.
MCKinds == {"pure", "done", "value"}

\* The self-submissions the repository makes: submit_to(self, fn) and
\* submit_to(self, fn, cb) with a void callback (distributor::end_game,
\* start_single, invoke_on for core 0).
MCSelfKinds == {"pure", "done"}

\* Every variant, including submit_to(self, fn, std::function<void(T)>).
MCAllSelfKinds == MCKinds

=============================================================================
