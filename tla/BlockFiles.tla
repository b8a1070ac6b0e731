----------------------------- MODULE BlockFiles -----------------------------
(***************************************************************************)
(* Where blocks and their undo data lie on disk (node/blockstorage.cpp):   *)
(* blk files are filled in the order of arrival, the rev file of the same  *)
(* number in the order of connection, only the file of the cursor is       *)
(* synced when the state is flushed, and a power loss takes with it what   *)
(* was written and not synced.                                             *)
(*                                                                         *)
(* A size is a number of blocks and a position <<file, slot>>.  The calls  *)
(* hold cs_main, so that WriteBlock is one step with AcceptBlock's update  *)
(* of the index, and WriteBlockUndo one with ConnectBlock.  There is no    *)
(* snapshot, and so one cursor, no pruning and no reindex.                 *)
(***************************************************************************)
EXTENDS BlockTree

CONSTANTS
    Stored,               \* the blocks whose data arrives, Genesis included
    MAX_BLOCKFILE_SIZE,
    MaxFile,              \* bound: the last file number
    MaxCrashes            \* bound: power losses

ASSUME BlockFilesAssumption ==
    /\ Genesis \in Stored /\ Stored \subseteq Block
    /\ MAX_BLOCKFILE_SIZE \in Nat \ {0, 1} /\ {MaxFile, MaxCrashes} \subseteq Nat

File == 0..MaxFile
Position == File \X (0..(MAX_BLOCKFILE_SIZE - 2))
Nowhere == <<>>

VARIABLES
    m_blockfile_info,   \* m_blockfile_info[f]: nSize, nUndoSize, nHeightLast
    cursor,             \* m_blockfile_cursors[NORMAL]
    blockPos, undoPos,  \* GetBlockPos and GetUndoPos of the index in memory
    blk, rev,           \* what a position of a blk and of a rev file holds
    blkSynced,          \* the positions of each whose content is durable
    revSynced,
    m_block_tree_db,    \* the last batch: the file infos and the positions
    step,               \* "running", "synced" within a flush, or "down"
    crashes             \* how often the power failed

memoryVars == <<m_blockfile_info, cursor, blockPos, undoPos>>
fileVars == <<blk, rev, blkSynced, revSynced>>
blockFileVars == <<memoryVars, fileVars, m_block_tree_db, step, crashes>>

NewFile == [nSize |-> 0, nUndoSize |-> 0, nHeightLast |-> 0]

BlockFilesInit ==
    /\ m_blockfile_info = [f \in File |-> NewFile]
    /\ cursor = [file_num |-> 0, undo_height |-> 0]
    /\ blockPos = [b \in Stored |-> Nowhere] /\ undoPos = blockPos
    /\ blk = [p \in Position |-> NoBlock] /\ rev = blk
    /\ blkSynced = Position /\ revSynced = Position
    /\ m_block_tree_db = [info |-> m_blockfile_info, last |-> 0,
                          blockPos |-> blockPos, undoPos |-> undoPos]
    /\ step = "running" /\ crashes = 0

In(f) == {p \in Position : p[1] = f}

-----------------------------------------------------------------------------

(* The positions FlushBlockFile(f, fFinalize, finalize_undo) syncs.        *)
FlushBlockFile(f, fFinalize, finalize_undo) ==
    [blk |-> In(f), rev |-> IF ~fFinalize \/ finalize_undo THEN In(f) ELSE {}]

(* Deviation: the undo file is left to WriteBlockUndo.                     *)
FinalizeUndo_Deviation(f) == FALSE

(* Whether the undo data of the file that is being left has kept up.       *)
FinalizeUndo(f) == m_blockfile_info[f].nHeightLast = cursor.undo_height

(* Deviation: the file that is left is not flushed.                        *)
LeaveFile_Deviation(f) == [blk |-> {}, rev |-> {}]

(* FindNextBlockPos syncs the file it leaves for another one.              *)
LeaveFile(f) == FlushBlockFile(f, TRUE, FinalizeUndo(f))

(* A block of this height more in a file.                                  *)
AddBlock(info, height) ==
    [nSize |-> info.nSize + 1, nUndoSize |-> info.nUndoSize,
     nHeightLast |-> IF height > info.nHeightLast THEN height
                     ELSE info.nHeightLast]

(* WriteBlock at the position FindNextBlockPos finds: in the file of the   *)
(* cursor, or, when that is full, in the next one.                         *)
WriteBlock(b) ==
    LET last  == cursor.file_num
        full  == m_blockfile_info[last].nSize + 1 >= MAX_BLOCKFILE_SIZE
        nFile == IF full THEN last + 1 ELSE last
        info  == m_blockfile_info[nFile]
        pos   == <<nFile, info.nSize>>
        flush == IF full THEN LeaveFile(last) ELSE [blk |-> {}, rev |-> {}]
    IN  /\ step = "running"
        /\ blockPos[b] = Nowhere
        /\ b # Genesis => blockPos[Genesis] # Nowhere
        /\ nFile <= MaxFile
        /\ cursor' = IF full THEN [file_num |-> nFile, undo_height |-> 0]
                     ELSE cursor
        /\ m_blockfile_info' =
               [m_blockfile_info EXCEPT ![nFile] = AddBlock(@, nHeight[b])]
        /\ blk' = [blk EXCEPT ![pos] = b]
        /\ blkSynced' = (blkSynced \cup flush.blk) \ {pos}
        /\ revSynced' = revSynced \cup flush.rev
        /\ blockPos' = [blockPos EXCEPT ![b] = pos]
        /\ UNCHANGED <<undoPos, rev, m_block_tree_db, step, crashes>>

(* WriteBlockUndo at the position FindUndoPos finds in the rev file of b's *)
(* own file; the highest block of a file that the cursor has left syncs    *)
(* the rev file.                                                           *)
WriteBlockUndo(b) ==
    LET nFile == blockPos[b][1]
        pos   == <<nFile, m_blockfile_info[nFile].nUndoSize>>
        final == /\ nFile < cursor.file_num
                 /\ nHeight[b] = m_blockfile_info[nFile].nHeightLast
    IN  /\ step = "running"
        /\ b # Genesis /\ blockPos[b] # Nowhere /\ undoPos[b] = Nowhere
        /\ pprev[b] = Genesis \/ undoPos[pprev[b]] # Nowhere
        /\ m_blockfile_info' = [m_blockfile_info EXCEPT ![nFile].nUndoSize = @ + 1]
        /\ rev' = [rev EXCEPT ![pos] = b]
        /\ revSynced' = IF final THEN revSynced \cup In(nFile)
                        ELSE revSynced \ {pos}
        /\ cursor' = IF nFile = cursor.file_num /\ nHeight[b] > cursor.undo_height
                     THEN [cursor EXCEPT !.undo_height = nHeight[b]] ELSE cursor
        /\ undoPos' = [undoPos EXCEPT ![b] = pos]
        /\ UNCHANGED <<blockPos, blk, blkSynced, m_block_tree_db, step, crashes>>

(* FlushStateToDisk: FlushChainstateBlockFile syncs the file of the cursor *)
(* and no other one, then WriteBlockIndexDB writes one batch.              *)
FlushChainstateBlockFile ==
    LET flush == FlushBlockFile(cursor.file_num, FALSE, FALSE)
    IN  /\ step = "running" /\ step' = "synced"
        /\ blkSynced' = blkSynced \cup flush.blk
        /\ revSynced' = revSynced \cup flush.rev
        /\ UNCHANGED <<memoryVars, blk, rev, m_block_tree_db, crashes>>

WriteBlockIndexDB ==
    /\ step = "synced" /\ step' = "running"
    /\ m_block_tree_db' = [info |-> m_blockfile_info, last |-> cursor.file_num,
                           blockPos |-> blockPos, undoPos |-> undoPos]
    /\ UNCHANGED <<memoryVars, fileVars, crashes>>

-----------------------------------------------------------------------------

(* External: the power fails.  Each position that was not synced holds     *)
(* what was written to it, or nothing that can be read.                    *)
PowerLoss(lostBlk, lostRev) ==
    /\ step # "down" /\ step' = "down"
    /\ crashes < MaxCrashes /\ crashes' = crashes + 1
    /\ blk' = [p \in Position |-> IF p \in lostBlk THEN NoBlock ELSE blk[p]]
    /\ rev' = [p \in Position |-> IF p \in lostRev THEN NoBlock ELSE rev[p]]
    /\ blkSynced' = Position /\ revSynced' = Position
    /\ UNCHANGED <<memoryVars, m_block_tree_db>>

(* The start: the cursor is at the last file, without an undo height.      *)
LoadBlockIndexDB ==
    /\ step = "down" /\ step' = "running"
    /\ m_blockfile_info' = m_block_tree_db.info
    /\ blockPos' = m_block_tree_db.blockPos /\ undoPos' = m_block_tree_db.undoPos
    /\ cursor' = [file_num |-> m_block_tree_db.last, undo_height |-> 0]
    /\ UNCHANGED <<fileVars, m_block_tree_db, crashes>>

BlockFilesNext ==
    \/ \E b \in Stored : WriteBlock(b) \/ WriteBlockUndo(b)
    \/ FlushChainstateBlockFile \/ WriteBlockIndexDB
    \/ \E lostBlk \in SUBSET (Position \ blkSynced),
          lostRev \in SUBSET (Position \ revSynced) : PowerLoss(lostBlk, lostRev)
    \/ LoadBlockIndexDB

BlockFilesSpec == BlockFilesInit /\ [][BlockFilesNext]_blockFileVars

-----------------------------------------------------------------------------

(* A block that the index on disk says is there survives a power loss: it  *)
(* lies at its position, synced.                                           *)
IndexedBlocksReadable ==
    \A b \in Stored : LET p == m_block_tree_db.blockPos[b]
                      IN  p # Nowhere => blk[p] = b /\ p \in blkSynced

(* So does undo data, of the blocks whose rev file FlushStateToDisk syncs  *)
(* or some write has synced: of those in the last file, and of the highest *)
(* of each file before it.                                                 *)
UndoDurable ==
    \A b \in Stored :
        LET p == m_block_tree_db.undoPos[b]
        IN  /\ p # Nowhere
            /\ \/ p[1] = m_block_tree_db.last
               \/ nHeight[b] = m_block_tree_db.info[p[1]].nHeightLast
            => rev[p] = b /\ p \in revSynced

=============================================================================
