-------------------------------- MODULE MCProbes --------------------------------
(* A small instance of Probes for TLC.                                       *)
EXTENDS Probes

Base     == <<"host_status", "configuration">>
Optional == <<"sgd_device", "odometer">>

\* A printer that knows everything, one that knows no SGD, one that does not
\* answer the first query, one without a response channel.
Printers == {{"host_status", "configuration", "sgd_device", "odometer"},
             {"host_status", "configuration"}, {"configuration"}, {}}

\* Another printer of the same model.
Neighbours == {[ids |-> TRUE, serial |-> "other", readable |-> TRUE, endpoints |-> {"out"}]}

Bounds == [power |-> 1, fault |-> 1, command |-> 2]
=================================================================================
