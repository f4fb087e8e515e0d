------------------------------ MODULE Threads -------------------------------
(***************************************************************************)
(* What threads and processes of a host share: a cancellation token, the   *)
(* pool of hardware workers, the queue of a device's owner thread or a      *)
(* replay store.  They have no state in common, so each is used by itself,  *)
(* from its own initial states, while the others rest.                      *)
(***************************************************************************)
EXTENDS CancellationToken, HardwareWorkers, PersistentDevice, Replay

VARIABLE part   \* the one that is used

threads == <<part, token, workers, device, replay>>

ThreadsInit ==
    /\ part \in {"token", "workers", "device", "replay"}
    /\ part # "device" => shared = FALSE
    /\ part # "replay" => kind = "memory" /\ key = [p \in Procs |-> CHOOSE k \in Keys : TRUE]
    /\ TokenInit /\ WorkersInit /\ DeviceInit /\ ReplayInit

ThreadsNext ==
    \/ part = "token" /\ TokenNext /\ UNCHANGED <<part, workers, device, replay>>
    \/ part = "workers" /\ WorkersNext /\ UNCHANGED <<part, token, device, replay>>
    \/ part = "device" /\ DeviceNext /\ UNCHANGED <<part, token, workers, replay>>
    \/ part = "replay" /\ ReplayNext /\ UNCHANGED <<part, token, workers, device>>

\* The fairness of TokenSpec, FairWorkersSpec and FairDeviceSpec; the stores need none.
ThreadsSpec ==
    /\ ThreadsInit /\ [][ThreadsNext]_threads
    /\ \A t \in Tasks :
           WF_threads(part = "token" /\ TaskStep(t) /\ UNCHANGED <<part, workers, device, replay>>)
    /\ \A c \in Cancellers :
           WF_threads(part = "token" /\ CancelStep(c) /\ UNCHANGED <<part, workers, device, replay>>)
    /\ \A c \in Calls :
           WF_threads(part = "workers" /\ Serve(c) /\ UNCHANGED <<part, token, device, replay>>)
    /\ WF_threads(/\ part = "device" /\ ~InDeviceWrite /\ Worker
                  /\ UNCHANGED <<part, token, workers, replay>>)
    /\ WF_threads(part = "device" /\ Resume /\ UNCHANGED <<part, token, workers, replay>>)
=============================================================================
