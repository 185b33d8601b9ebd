------------------------------ MODULE QueueDisk -----------------------------
(***************************************************************************)
(* Drivers that share queues in memory with their device, one command in   *)
(* flight at a time. hw/nvme.c gives up on a command after 5 seconds; the  *)
(* controller fetches and answers at its own pace, in any order, and knows *)
(* nothing of that. hw/virtio-ring.c with hw/virtio-blk.c and              *)
(* hw/virtio-scsi.c takes descriptors from a free list, offers them in the *)
(* avail ring and gets them back in the used ring; it waits without limit. *)
(***************************************************************************)
EXTENDS BlockOp

CONSTANTS
    NvmeLen,    \* length of the io queues: a power of two, as QEMU offers
    PageBlocks, \* blocks of a drive in the page that is the dma buffer
    VringNum,   \* descriptors of the queue
    IdxWrap     \* where the 16 bit indices wrap

ASSUME NvmeAssumption ==
    /\ NvmeLen \in {2, 4, 8, 16, 32, 64, 128, 256}
    /\ PageBlocks \in Nat \ {0}

ASSUME VirtioAssumption ==
    /\ VringNum \in Nat \ {0, 1, 2}
    /\ IdxWrap \in Nat \ {0} /\ IdxWrap % VringNum = 0

-----------------------------------------------------------------------------
(* hw/nvme.c *)

Nothing == [id |-> Ids, lo |-> 0, n |-> 0, tag |-> 0, write |-> FALSE]

\* struct nvme_ctrl with its io queues; the d... are the controller's own
\* positions, `bounce` the chunk whose data is in the dma buffer, `buffer` whether
\* there is one, `live` the queues that are allocated, `given` those whose address
\* the controller has (it stays enabled), `wild` whether something was written
\* through a NULL pointer, `missed` whether a failure of this request was not seen,
\* `gone` whether the controller has stopped.
NvmeHw ==
    [live |-> {}, given |-> {}, buffer |-> TRUE, missed |-> FALSE, sqe |-> [s \in 0 .. NvmeLen - 1 |-> Nothing], tail |-> 0, head |-> 0,
     cqe |-> [s \in 0 .. NvmeLen - 1 |-> [phase |-> 0, sqhead |-> 0, st |-> "ok"]],
     chead |-> 0, phase |-> 1, dhead |-> 0, dtail |-> 0, dphase |-> 1,
     bounce |-> <<Ids, 0>>, wild |-> FALSE, gone |-> FALSE]

NvmeUnchanged == UNCHANGED <<drv, op, pos, moved, ans, dev, stray>>

\* nvme_controller_setup and nvme_controller_enable up to the admin queues and
\* the enabled controller, which has their addresses; each wait and each allocation
\* may fail. A controller that does not become ready in time stays enabled.
NvmeEnable ==
    /\ drv = "nvme"
    /\ \/ /\ pc = "off"
          /\ pc' \in {"disable", "absent"}
          /\ UNCHANGED hw
       \/ /\ pc = "disable"
          /\ \/ pc' = "absent" /\ UNCHANGED hw
             \/ pc' = "enable" /\ hw' = [hw EXCEPT !.live = {"admin_cq", "admin_sq"}, !.given = {"admin_cq", "admin_sq"}]
       \/ /\ pc = "enable"
          /\ \/ pc' = "absent" /\ hw' = [hw EXCEPT !.live = {}]
             \/ pc' = "identify" /\ UNCHANGED hw
    /\ NvmeUnchanged

\* nvme_admin_identify of the controller, and that it has namespaces.
NvmeIdentify == pc = "identify" /\ pc' \in {"iocq", "fail"} /\ UNCHANGED hw

\* nvme_create_io_cq, nvme_create_io_sq: the memory is freed if the controller
\* refuses or does not answer, and may create the queue in it later.
NvmeCreate(q, next) ==
    \/ pc' = next /\ hw' = [hw EXCEPT !.live = @ \cup {q}, !.given = @ \cup {q}]
    \/ pc' = "fail" /\ UNCHANGED hw
    \/ pc' = "fail" /\ hw' = [hw EXCEPT !.given = @ \cup {q}]

\* nvme_probe_ns: a namespace that cannot be identified, is inactive or has blocks
\* larger than a page does not become a drive; one whose dma_buffer cannot be
\* allocated does.
NvmeProbe ==
    /\ pc = "ns"
    /\ \/ pc' \in {"unused", "fail"} /\ UNCHANGED hw
       \/ pc' = "idle" /\ \E b \in BOOLEAN : hw' = [hw EXCEPT !.buffer = b]

\* The rest of nvme_controller_enable: identify, io queues, namespaces. A
\* failure frees the queues allocated before it and leaves the controller enabled
\* with their addresses. The namespaces are no failure (but for their array): the
\* queues stay, whether or not one of them became a drive.
NvmeCreateQueues ==
    /\ drv = "nvme"
    /\ \/ NvmeIdentify
       \/ pc = "iocq" /\ NvmeCreate("io_cq", "iosq")
       \/ pc = "iosq" /\ NvmeCreate("io_sq", "ns")
       \/ NvmeProbe
       \/ pc = "fail" /\ pc' = "absent" /\ hw' = [hw EXCEPT !.live = {}]
    /\ NvmeUnchanged

\* nvme_get_next_sqe finds no room.
NvmeFull == (hw.head + 1) % NvmeLen = hw.tail

\* Blocks of the next command.
NvmeChunk == IF op.count - pos < PageBlocks THEN op.count - pos ELSE PageBlocks

\* A chunk of nvme_cmd_readwrite: the dma buffer is filled for a write,
\* nvme_io_readwrite takes the next entry, fills it and rings the doorbell. It
\* does so with the NULL of a full queue too: what it fills is then not the
\* entry the controller will fetch. And the chunk of a drive without dma buffer goes
\* through the first page of memory, where the interrupt vectors are.
NvmeSubmit ==
    /\ drv = "nvme" /\ pc = "start"
    /\ hw' = [hw EXCEPT
                !.bounce = IF op.command = "write" /\ ~hw.gone THEN <<op.id, pos>> ELSE @,
                !.sqe = IF NvmeFull \/ hw.gone THEN @
                        ELSE [@ EXCEPT ![hw.tail] = Command(pos, NvmeChunk, hw.tail)],
                !.wild = @ \/ NvmeFull \/ ~hw.buffer,
                !.missed = @ /\ pos > 0,
                !.tail = (@ + 1) % NvmeLen]
    /\ pc' = "wait"
    /\ UNCHANGED <<drv, op, pos, moved, ans, dev, stray>>

\* The controller fetches the next entry.
NvmeFetch ==
    /\ drv = "nvme" /\ ~hw.gone /\ hw.dhead # hw.tail
    /\ dev' = dev \cup {hw.sqe[hw.dhead]}
    /\ hw' = [hw EXCEPT !.dhead = (@ + 1) % NvmeLen]
    /\ UNCHANGED <<drv, op, pc, pos, moved, ans, stray>>

\* The controller carries a command out, or fails, and posts the completion
\* with the phase of this round of the queue, if there is room for it. Its status
\* has a code and a type, and "type" is one whose code is 0 and whose type is not.
NvmeServe ==
    /\ drv = "nvme" /\ ~hw.gone
    /\ (hw.dtail + 1) % NvmeLen # hw.chead
    /\ \E c \in dev, st \in {"ok", "code", "type"} : LET ok == st = "ok" IN
        /\ dev' = dev \ {c}
        /\ hw' = [hw EXCEPT
                    !.bounce = IF ok /\ ~c.write THEN <<c.id, c.lo>> ELSE @,
                    !.cqe[hw.dtail] = [phase |-> hw.dphase, sqhead |-> hw.dhead, st |-> st],
                    !.dtail = (@ + 1) % NvmeLen,
                    !.dphase = IF hw.dtail = NvmeLen - 1 THEN 1 - @ ELSE @]
        /\ moved' = IF ok /\ c.write /\ Current(c) /\ hw.bounce = <<c.id, c.lo>>
                    THEN moved \cup c.lo .. c.lo + c.n - 1 ELSE moved
        /\ stray' = (stray \/ ~Current(c))
    /\ UNCHANGED <<drv, op, pc, pos, ans>>

\* The controller stops for good and answers nothing more. Its queue and buffer,
\* which nobody reads from now on, are not followed.
NvmeStop ==
    /\ drv = "nvme" /\ dev # {} /\ ~hw.gone
    /\ hw' = [hw EXCEPT !.gone = TRUE, !.sqe = NvmeHw.sqe, !.bounce = NvmeHw.bounce]
    /\ dev' = {}
    /\ UNCHANGED <<drv, op, pc, pos, moved, ans, stray>>

\* nvme_poll_cq.
NvmePollCq == hw.cqe[hw.chead].phase = hw.phase

\* nvme_is_cqe_success looks at the code of the status.
NvmeIsCqeSuccess == hw.cqe[hw.chead].st # "code"

\* nvme_consume_cqe: whatever entry is next is the answer. It is not read a second
\* time: its status is forgotten here.
NvmeTake ==
    LET next == (hw.chead + 1) % NvmeLen
    IN  hw' = [hw EXCEPT
                !.chead = next,
                !.phase = IF next < hw.chead THEN 1 - @ ELSE @,
                !.head = hw.cqe[hw.chead].sqhead,
                !.cqe[hw.chead].st = "ok",
                !.missed = @ \/ hw.cqe[hw.chead].st = "type"]

\* The wait ends with an entry; nvme_cmd_readwrite copies what was read from
\* the dma buffer and goes on with the next chunk.
NvmeConsume ==
    /\ drv = "nvme" /\ pc = "wait"
    /\ NvmePollCq
    /\ NvmeTake
    /\ LET ok == NvmeIsCqeSuccess
           n  == NvmeChunk
       IN  /\ moved' = IF ok /\ op.command = "read" /\ hw.bounce = <<op.id, pos>>
                       THEN moved \cup pos .. pos + n - 1 ELSE moved
           /\ pos' = IF ok THEN pos + n ELSE pos
           /\ \/ ~ok /\ Return("ebadtrack", op.count)
              \/ ok /\ pos + n >= op.count /\ Return("success", op.count)
              \/ ok /\ pos + n < op.count /\ pc' = "start" /\ UNCHANGED ans
    /\ UNCHANGED <<drv, op, dev, stray>>

\* nvme_wait gives up; nothing tells the controller.
NvmeExpire ==
    /\ drv = "nvme" /\ pc = "wait"
    /\ hw.gone \/ drv \in LateDrivers
    /\ ~NvmePollCq
    /\ Return("ebadtrack", op.count)
    /\ UNCHANGED <<drv, op, pos, moved, hw, dev, stray>>

NvmeNext ==
    \/ NvmeEnable \/ NvmeCreateQueues
    \/ NvmeSubmit \/ NvmeFetch \/ NvmeServe \/ NvmeStop \/ NvmeConsume \/ NvmeExpire

-----------------------------------------------------------------------------
(* hw/virtio-ring.c, hw/virtio-blk.c, hw/virtio-scsi.c *)

Desc == 0 .. VringNum - 1

\* struct vring_virtqueue after vring_init: `more` is VRING_DESC_F_NEXT. The
\* device has its own position in the avail ring.
VirtioHw ==
    [next |-> [i \in Desc |-> (i + 1) % VringNum], more |-> [i \in Desc |-> FALSE],
     free_head |-> 0, avail |-> [i \in Desc |-> 0], avail_idx |-> 0,
     used |-> [i \in Desc |-> [id |-> 0, ok |-> TRUE]], used_idx |-> 0,
     last_used_idx |-> 0, dev_idx |-> 0, modern |-> FALSE, status |-> {}, vq |-> FALSE, mem |-> {}]

VirtioDrivers == {"virtio-blk", "virtio-scsi"}

VirtioUnchanged == UNCHANGED <<drv, op, pos, moved, ans, dev, stray>>

\* vp_init_simple: the device is modern or legacy, is reset and acknowledged.
VpInitSimple ==
    /\ drv \in VirtioDrivers /\ pc = "off"
    /\ pc' = "found"
    /\ \E modern \in BOOLEAN :
        hw' = [hw EXCEPT !.modern = modern, !.status = {"ACKNOWLEDGE", "DRIVER"}]
    /\ VirtioUnchanged

\* vp_find_vq: without memory, or with a queue that does not exist, is too
\* large or in use, there is none; what was allocated is freed.
VpFindVq(next) ==
    \/ pc' = next /\ hw' = [hw EXCEPT !.vq = TRUE]
    \/ pc' = "fail" /\ UNCHANGED hw

\* The negotiation with a modern device, which may offer too little or refuse.
VpNegotiate(next) ==
    \/ hw.modern /\ pc' = next /\ hw' = [hw EXCEPT !.status = @ \cup {"FEATURES_OK"}]
    \/ hw.modern /\ pc' = "fail" /\ UNCHANGED hw
    \/ ~hw.modern /\ pc' = next /\ UNCHANGED hw

\* init_virtio_blk: queue, features, size of the sectors (512, or the drive is
\* not used), DRIVER_OK.
InitVirtioBlk ==
    /\ drv = "virtio-blk"
    /\ \/ pc = "found" /\ VpFindVq("negotiate")
       \/ pc = "negotiate" /\ VpNegotiate("queue")
       \/ /\ pc = "queue"
          /\ \/ pc' = "idle" /\ hw' = [hw EXCEPT !.status = @ \cup {"DRIVER_OK"}]
             \/ pc' = "fail" /\ UNCHANGED hw
       \/ pc = "fail" /\ pc' = "absent" /\ hw' = [hw EXCEPT !.vq = FALSE, !.status = {}]
    /\ VirtioUnchanged

\* init_virtio_scsi: features, queue, DRIVER_OK; the targets are scanned
\* (VirtioScsiAddLun), and a controller without any is reset and its memory freed.
InitVirtioScsi ==
    /\ drv = "virtio-scsi"
    /\ \/ pc = "found" /\ VpNegotiate("queue")
       \/ /\ pc = "queue"
          /\ \/ /\ pc' = "scan"
                /\ hw' = [hw EXCEPT !.vq = TRUE, !.status = @ \cup {"DRIVER_OK"}]
             \/ pc' = "fail" /\ UNCHANGED hw
       \/ pc = "fail" /\ pc' = "absent" /\ hw' = [hw EXCEPT !.vq = FALSE, !.status = {}]
    /\ VirtioUnchanged

\* virtio_scsi_scan_target and virtio_scsi_add_lun.
VirtioScsiAddLun == drv = "virtio-scsi" /\ AddLun({"lun"}, "fail")

\* The k-th descriptor of the list that starts at `head`.
Nth(q, head, k) ==
    LET walk[j \in 0 .. k] == IF j = 0 THEN head ELSE q.next[walk[j - 1]]
    IN  walk[k]

\* vring_add_buf of k buffers, and vring_kick.
VringAdd(q, k) ==
    LET chain == {Nth(q, q.free_head, j) : j \in 0 .. k - 1}
        last  == Nth(q, q.free_head, k - 1)
    IN  [q EXCEPT
            !.more = [i \in Desc |-> IF i \in chain THEN i # last ELSE q.more[i]],
            !.free_head = q.next[last],
            !.avail[q.avail_idx % VringNum] = q.free_head,
            !.avail_idx = (@ + 1) % IdxWrap]

\* The end of a chain: vring_detach follows `more` from its head.
ChainEnd(q, head) ==
    CHOOSE i \in {Nth(q, head, k) : k \in 0 .. VringNum - 1} :
        /\ ~q.more[i]
        /\ \E k \in 0 .. VringNum - 1 :
            /\ i = Nth(q, head, k)
            /\ \A j \in 0 .. k - 1 : q.more[Nth(q, head, j)]


\* vring_get_buf with vring_detach.
VringGet(q) ==
    LET id == q.used[q.last_used_idx % VringNum].id
    IN  [q EXCEPT
            !.next[ChainEnd(q, id)] = q.free_head,
            !.free_head = id,
            !.last_used_idx = (@ + 1) % IdxWrap]

\* A chain of k buffers is offered to the device.
VirtioOffer(k) ==
    /\ hw' = VringAdd(hw, k)
    /\ dev' = dev \cup {Command(0, op.count, hw.free_head)}
    /\ pc' = "wait"
    /\ UNCHANGED <<drv, op, pos, moved, ans, stray>>

\* virtio_blk_op up to the wait: header, data and status.
VirtioBlkOp == drv = "virtio-blk" /\ pc = "start" /\ VirtioOffer(3)

\* virtio_scsi_process_op up to the wait: without data there are two buffers.
VirtioScsiOp ==
    /\ drv = "virtio-scsi" /\ pc = "start"
    /\ VirtioOffer(IF op.data THEN 3 ELSE 2)

\* The device takes the next head of the avail ring, follows its chain, moves
\* the data or fails, and returns the head in the used ring.
VirtioServe ==
    /\ drv \in VirtioDrivers /\ hw.dev_idx # hw.avail_idx
    /\ \E c \in dev, ok \in BOOLEAN :
        /\ c.tag = hw.avail[hw.dev_idx % VringNum]
        /\ dev' = dev \ {c}
        /\ hw' = [hw EXCEPT
                    !.used[hw.used_idx % VringNum] = [id |-> c.tag, ok |-> ok],
                    !.used_idx = (@ + 1) % IdxWrap,
                    !.dev_idx = (@ + 1) % IdxWrap]
        /\ IF ok THEN Move(c) ELSE UNCHANGED <<moved, stray>>
    /\ UNCHANGED <<drv, op, pc, pos, ans>>

\* vring_more_used ends the wait; the status the device wrote decides.
VirtioConsume ==
    /\ drv \in VirtioDrivers /\ pc = "wait"
    /\ hw.last_used_idx # hw.used_idx
    /\ hw' = VringGet(hw)
    /\ LET ok == hw.used[hw.last_used_idx % VringNum].ok
       IN  Return(IF ok THEN "success" ELSE "ebadtrack", op.count)
    /\ UNCHANGED <<drv, op, pos, moved, dev, stray>>

VirtioNext ==
    \/ VpInitSimple \/ InitVirtioBlk \/ InitVirtioScsi \/ VirtioScsiAddLun
    \/ VirtioBlkOp \/ VirtioScsiOp \/ VirtioServe \/ VirtioConsume

\* Between requests every descriptor is on the free list: a request can always
\* have the descriptors it needs, however many came before it.
DescriptorsFree ==
    drv \in VirtioDrivers /\ pc = "idle"
        => {Nth(hw, hw.free_head, k) : k \in Desc} = Desc
=============================================================================
