----------------------------- MODULE MCProcesses ------------------------------
(* Small instances of Processes for TLC. *)
EXTENDS ProcessesInvariant, TLC

\* A message for each queue; two where order and prefetch can be seen, and a
\* declining answer before an accepting one.
MCQueues == {"driver_cmd_trip_response", "payment_success", "find_available_drivers",
             "trip_cancelled_driver", "payment_trip_response", "notify"}
MCTwo == {"driver_cmd_trip_response", "payment_trip_response", "notify"}
MCInbox == [q \in MCQueues |-> [i \in 1..(IF q \in MCTwo THEN 2 ELSE 1) |-> <<q, i>>]]
MCDeclines == {<<"driver_cmd_trip_response", 1>>}

\* The cancellation is about the trip that a driver is searched for.
MCTripOf == [m \in Messages |-> "trip"]

\* One body for each outcome of decoding, validation and the event's checks.
MCBodies ==
    {[decodes |-> x, unknown |-> FALSE, has |-> {}] : x \in BOOLEAN}
    \cup {[decodes |-> TRUE, unknown |-> x,
           has |-> {"userID", "tripID", "pickup", "destination",
                    "signature", "completed", "session"}] : x \in BOOLEAN}
    \cup {[decodes |-> TRUE, unknown |-> FALSE, has |-> h] :
            h \in {{"userID", "pickup"}, {"signature"}, {"signature", "completed"}}}
=============================================================================
