------------------------------ MODULE MCReactor ------------------------------
EXTENDS Reactor

\* Submissions with a callback_t, and the stop function of reactor::stop.
MCKinds == {"done", "stop"}

\* A core submits to itself only with a callback_t in this model.
MCSelfKinds == {"done"}

=============================================================================
