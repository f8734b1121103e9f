--------------------------- MODULE MCJobDelivery ---------------------------
(***************************************************************************)
(* JobDelivery on the three brokers, for TLC.  The visibility timeout of   *)
(* SQS and the reservation timeout of IronMQ are PROCESSING_TIMEOUT (two   *)
(* ticks here); Beanstalk has the far longer time to run of the put        *)
(* command.  Only SQS sends the number of receives, and it may still obey  *)
(* an old receipt handle.  On Beanstalk a reservation is the connection's. *)
(***************************************************************************)
EXTENDS JobDelivery

SQS       == [timeout |-> ProcessingTimeout, counts |-> TRUE, stale |-> TRUE, bound |-> FALSE]
IronMQ    == [timeout |-> ProcessingTimeout, counts |-> FALSE, stale |-> FALSE, bound |-> FALSE]
Beanstalk == [timeout |-> 2 * ProcessingTimeout, counts |-> FALSE, stale |-> FALSE, bound |-> TRUE]

MCBrokers == {SQS, IronMQ, Beanstalk}

=============================================================================
