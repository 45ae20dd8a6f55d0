------------------------------ MODULE EscapePage ------------------------------
(***************************************************************************)
(* The escape page: the memory that the aarch64 guest driver (xdma_stub)   *)
(* and the host's user space manager share, its header (struct             *)
(* faultdata_struct) and the union of request structures laid over its     *)
(* data area (fpga_usr_manager.h).  A write of the nonce word faults into  *)
(* the host while the hook is enabled, and the simulated machine stands    *)
(* still until the host releases the fault.  The nonce value itself is     *)
(* never read by the host and is left out.                                 *)
(*                                                                         *)
(* The data area is modelled by the words that two structures of the union *)
(* use for different purposes; everything behind them is the body.         *)
(***************************************************************************)
EXTENDS Integers

CONSTANTS
  Threads,      \* guest threads inside a file operation of the stub driver
  NoThread,     \* no thread
  AllOnes       \* 0xffffffff, the low word of a negative common.ret read as an
                \* unsigned number: larger than every size in the protocol

ASSUME PageAssumption ==
  /\ NoThread \notin Threads
  /\ AllOnes \in Nat

VARIABLES
  turn,         \* faultdata_struct.turn
  action,       \* faultdata_struct.action
  area,         \* faultdata_struct.data, see Area
  fault,        \* the guest thread whose nonce write waits for the host
  traced,       \* the faulthook kernel traps nonce writes (external)
  done,         \* history: how often the host carried out t's current call
  hit           \* history: threads whose current call saw the manager end

pageVars == <<turn, action, area, fault, traced, done, hit>>

-----------------------------------------------------------------------------
(* Header values (enum fh_turn, enum fh_action).                           *)

FH_TURN_HOST  == 1
FH_TURN_GUEST == 2

FH_ACTION_NOACTION             == 0
FH_ACTION_OPEN_DEVICE          == 11
FH_ACTION_CLOSE_DEVICE         == 12
FH_ACTION_MMAP                 == 13
FH_ACTION_READ                 == 14
FH_ACTION_WRITE                == 15
FH_ACTION_SETUP                == 21
FH_ACTION_DMA                  == 23
FH_ACTION_TRANSFER_ESCAPE_DATA == 30

Actions == {FH_ACTION_NOACTION, FH_ACTION_OPEN_DEVICE, FH_ACTION_CLOSE_DEVICE,
            FH_ACTION_MMAP, FH_ACTION_READ, FH_ACTION_WRITE, FH_ACTION_SETUP,
            FH_ACTION_DMA, FH_ACTION_TRANSFER_ESCAPE_DATA}

(* enum action_transfer_escape_data_status                                 *)
StatusOk           == 1
StatusTransferSize == 2
StatusTransferData == 3
StatusError        == 4

-----------------------------------------------------------------------------
(* The data area.                                                          *)
(*   w0    bytes 0-3    common.fd                | transfer status         *)
(*   w1    bytes 4-7    low word of common.ret   | total_size              *)
(*                                               | chunk_data_size         *)
(*   w2    bytes 8-11   high word of common.ret  | handshake.chunk_size    *)
(*                                               | first word of chunk_data*)
(*   w3    bytes 12-15  common.err_no            | handshake.info_ctx      *)
(*   body  the rest: the structure it was written as (view), by whom, and  *)
(*         for a chunk the offset of its first byte and its length, for a  *)
(*         DMA request the size of its page list and its direction.        *)

Views == {"none", "open", "dma", "mmap", "rw", "ioctl", "chunk"}

Body == [view: Views, by: Threads \cup {NoThread}, from: Int, n: Nat,
         write: BOOLEAN]

Area == [w0: Int, w1: Nat, w2: Int, w3: Nat, body: Body]

(* The data area with these words and this body.                           *)
Data(w0, w1, w2, w3, body) ==
  [w0 |-> w0, w1 |-> w1, w2 |-> w2, w3 |-> w3, body |-> body]

(* A request structure that t has written.                                 *)
Written(view, t) ==
  [view |-> view, by |-> t, from |-> 0, n |-> 0, write |-> FALSE]

NoBody == Written("none", NoThread)

(* memset(fd_data->data, 0, ...)                                           *)
ZeroArea == Data(0, 0, 0, 0, NoBody)

EIO == 5

(* set_ret_and_err_no of fpga_comm.c: also overwrites common.fd.           *)
SetRetAndErrNo(a, r) ==
  IF r < 0 THEN Data(r, AllOnes, -1, EIO, a.body) ELSE Data(r, r, 0, 0, a.body)

(* a->common.ret < 0                                                       *)
CommonRetNegative(a) == a.w2 < 0

-----------------------------------------------------------------------------
(* The guest machine stands still while a fault is outstanding: the FVP    *)
(* simulates all of its cores in the process that the hook stops.          *)
GuestRuns == fault = NoThread

PageInit ==
  /\ turn = FH_TURN_GUEST
  /\ action = FH_ACTION_SETUP
  /\ area = ZeroArea
  /\ fault = NoThread
  /\ traced = TRUE
  /\ done = [t \in Threads |-> 0]
  /\ hit = {}

PageTypeOK ==
  /\ turn \in {FH_TURN_HOST, FH_TURN_GUEST}
  /\ action \in Actions
  /\ area \in Area
  /\ fault \in Threads \cup {NoThread}
  /\ traced \in BOOLEAN
  /\ done \in [Threads -> 0..2]
  /\ hit \in SUBSET Threads
=============================================================================
