\* The application answers a buy request while an HTLC is intercepted.
SPECIFICATION Spec
CONSTANTS
  Threads = {t1, t2}
  Calls = {"htlc_intercepted", "invoice_parameters_generated"}
INVARIANT NoDeadlock
