\* Every call but invoice_parameters_generated, on three threads.
SPECIFICATION Spec
CONSTANTS
  Threads = {t1, t2, t3}
  Calls = {"htlc_intercepted", "htlc_handling_failed", "payment_forwarded",
           "channel_ready", "opening_fee_params_generated", "handle_request",
           "refuse_request", "parse_failure", "get_and_clear_pending_msg",
           "set_process_msgs_callback"}
INVARIANT NoDeadlock
