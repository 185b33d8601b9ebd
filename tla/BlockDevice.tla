---------------------------- MODULE BlockDevice ----------------------------
(***************************************************************************)
(* What process_op of SeaBIOS promises to int 13h, the boot code and the   *)
(* drive setup, whatever driver carries a request out: one request at a    *)
(* time, and success only for a request whose sectors were all moved       *)
(* between the medium and the buffer of that very request.                 *)
(***************************************************************************)
EXTENDS Integers, FiniteSets

CONSTANT
    Requests    \* disk_op_s as far as the outcome depends on it: records with
                \* fields command, count, and data: does the request move sectors?

VARIABLES
    request,    \* the request being carried out, or the last one
    busy,       \* is it being carried out?
    served,     \* the sectors of the request that were moved, from 0
    answer      \* [status, count] that process_op returned last

bdVars == <<request, busy, served, answer>>

\* The sectors of a request.
Sectors(r) == IF r.data THEN 0 .. r.count - 1 ELSE {}

BDInit ==
    /\ request \in Requests
    /\ busy = FALSE
    /\ served = {}
    /\ answer = [status |-> "success", count |-> 0]

\* A caller hands a request to the driver.
BDRequest ==
    /\ ~busy
    /\ request' \in Requests
    /\ busy' = TRUE
    /\ served' = {}
    /\ UNCHANGED answer

\* Sectors of the request reach their destination, in any order.
BDServe ==
    /\ busy
    /\ served' \in SUBSET Sectors(request)
    /\ served \subseteq served'
    /\ UNCHANGED <<request, busy, answer>>

\* The request is answered, with the last sectors moved if the driver copies
\* them itself. With success all of it is done; with an error the
\* count of a read does not exceed what was moved, from the start of the
\* buffer. (The count of a write that failed promises nothing.)
BDAnswer ==
    /\ busy
    /\ busy' = FALSE
    /\ served' \in SUBSET Sectors(request)
    /\ served \subseteq served'
    /\ \E ok \in BOOLEAN, n \in 0 .. request.count :
        /\ ok => served' = Sectors(request) /\ n = request.count
        /\ request.data /\ request.command # "write" => 0 .. n - 1 \subseteq served'
        /\ answer'.count = n
        /\ (answer'.status = "success") <=> ok
    /\ UNCHANGED request

BDNext == BDRequest \/ BDServe \/ BDAnswer

BDSpec == BDInit /\ [][BDNext]_bdVars
=============================================================================
