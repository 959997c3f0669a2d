----------------------------- MODULE SimpleRead -----------------------------
(***************************************************************************)
(* The simple read abstraction of gnu-efi/lib/sread.c: a file is read from *)
(* the caller's buffer, through the file system of the device, or from a   *)
(* copy that the load file protocol makes.  Every call of the firmware may *)
(* fail.  A file handle is the number of directories above it plus one; 0  *)
(* is NULL.  A file path is what LocateDevicePath left of it.              *)
(***************************************************************************)
EXTENDS Integers, Sequences

CONSTANTS
    FilePaths,      \* the nodes behind the device, "file" (MEDIA_FILEPATH_DP) or "other"
    SourceSizes,    \* sizes of the file
    MaxOffset,      \* bound: the largest offset and size of a read
    MaxUINTN        \* the largest UINTN

ASSUME SimpleReadAssumption ==
    /\ SourceSizes \subseteq Nat /\ MaxOffset \in Nat /\ MaxUINTN \in Nat
    /\ \A n \in SourceSizes : n <= MaxUINTN

VARIABLES
    readPc, readStatus,
    path, node,             \* the nodes of the file path, and how many are done
    restored,               \* *FilePath is UserFilePath
    FileHandle, openFiles,  \* the handle in hand, and the files that are open
    FHand,                  \* the simple read handle: "none", "allocated", "freed"
    Source, FreeBuffer,     \* "NULL", "caller" or "pool"; to be freed by Close
    poolBuffer,             \* the copy is allocated
    SourceSize, atOnce,     \* atOnce: the sizing call of LoadFile succeeded
    copied                  \* the offsets the last read has copied: [from, to)

readVars == <<readPc, readStatus, path, node, restored, FileHandle, openFiles, FHand,
              Source, FreeBuffer, poolBuffer, SourceSize, atOnce, copied>>

ReadOff ==
    /\ readStatus = "SUCCESS" /\ path = <<>> /\ node = 0 /\ restored = TRUE
    /\ FileHandle = 0 /\ openFiles = {} /\ FHand = "none" /\ Source = "NULL"
    /\ FreeBuffer = FALSE /\ poolBuffer = FALSE /\ SourceSize = 0 /\ atOnce = FALSE
    /\ copied = <<0, 0>> /\ readPc = "off"

ReadInit ==
    /\ readPc = "allocate" /\ readStatus = "SUCCESS"
    /\ path \in FilePaths /\ node = 0 /\ restored = TRUE
    /\ FileHandle = 0 /\ openFiles = {} /\ FHand = "none" /\ Source = "NULL"
    /\ FreeBuffer = FALSE /\ poolBuffer = FALSE /\ SourceSize \in SourceSizes
    /\ atOnce = FALSE /\ copied = <<0, 0>>

SimpleReadError(s) == s # "SUCCESS"

\* FHand = AllocateZeroPool (...); a caller's buffer is all that is needed.
AllocateHandle ==
    /\ readPc = "allocate"
    /\ \/ readPc' = "done" /\ readStatus' = "OUT_OF_RESOURCES" /\ UNCHANGED <<FHand, Source>>
       \/ readPc' = "done" /\ FHand' = "allocated" /\ Source' = "caller" /\ UNCHANGED readStatus
       \/ readPc' = "locate" /\ FHand' = "allocated" /\ UNCHANGED <<readStatus, Source>>
    /\ UNCHANGED <<path, node, restored, FileHandle, openFiles, FreeBuffer, poolBuffer,
                   SourceSize, atOnce, copied>>

\* LocateDevicePath moves *FilePath behind the device; LibOpenRoot may still fail.
LocateFileSystem ==
    /\ readPc = "locate" /\ readPc' = "walk"
    /\ \/ restored' = FALSE /\ FileHandle' = 1 /\ openFiles' = {1} /\ readStatus' = "SUCCESS"
       \/ restored' \in BOOLEAN /\ FileHandle' = 0 /\ readStatus' = "UNSUPPORTED"
          /\ UNCHANGED openFiles
    /\ UNCHANGED <<path, node, FHand, Source, FreeBuffer, poolBuffer, SourceSize, atOnce, copied>>

NodeStatus == IF node < Len(path) /\ path[node + 1] # "file" THEN "UNSUPPORTED" ELSE readStatus

\* Open the node in the directory above it, and close that.
OpenNode ==
    /\ readPc = "walk" /\ node < Len(path) /\ ~SimpleReadError(NodeStatus)
    /\ \/ readStatus' = "SUCCESS" /\ FileHandle' = FileHandle + 1
          /\ openFiles' = (openFiles \cup {FileHandle'}) \ {FileHandle}
       \/ readStatus' \in {"NOT_FOUND", "UNSUPPORTED"} /\ FileHandle' = 0
          /\ openFiles' = openFiles \ {FileHandle}
    /\ node' = node + 1
    /\ UNCHANGED <<readPc, path, restored, FHand, Source, FreeBuffer, poolBuffer, SourceSize,
                   atOnce, copied>>

\* What is still open when the walk has failed, and *FilePath.
LeftOpen == openFiles
ClosedAfterWalk == openFiles \ {FileHandle}

EndWalk ==
    /\ readPc = "walk" /\ (node = Len(path) \/ SimpleReadError(NodeStatus))
    /\ readStatus' = (IF node = Len(path) THEN readStatus ELSE NodeStatus)
    /\ IF SimpleReadError(readStatus')
       THEN /\ restored' = (restored \/ FileHandle # 0)
            /\ openFiles' = ClosedAfterWalk /\ FileHandle' = 0
            /\ readPc' = (IF readStatus' = "UNSUPPORTED" THEN "interface" ELSE "done")
       ELSE UNCHANGED <<restored, openFiles, FileHandle>> /\ readPc' = "done"
    /\ UNCHANGED <<path, node, FHand, Source, FreeBuffer, poolBuffer, SourceSize, atOnce, copied>>

FindLoadFile ==
    /\ readPc = "interface"
    /\ \/ readPc' = "size" /\ UNCHANGED readStatus
       \/ readPc' = "done" /\ readStatus' = "UNSUPPORTED"
    /\ UNCHANGED <<path, node, restored, FileHandle, openFiles, FHand, Source, FreeBuffer,
                   poolBuffer, SourceSize, atOnce, copied>>

\* An error but EFI_ALREADY_STARTED becomes EFI_UNSUPPORTED.
LoadDone(s) == readStatus' = (IF s \in {"SUCCESS", "ALREADY_STARTED"} THEN s ELSE "UNSUPPORTED")

SizeFile ==
    /\ readPc = "size"
    /\ \/ readPc' = "load" /\ Source' = "pool" /\ FreeBuffer' = TRUE /\ poolBuffer' = TRUE
          /\ UNCHANGED <<readStatus, atOnce>>
       \/ /\ \E s \in {"BUFFER_TOO_SMALL", "SUCCESS", "ALREADY_STARTED", "NOT_FOUND"} :
               LoadDone(s) /\ atOnce' = (s = "SUCCESS")
          /\ readPc' = "done" /\ UNCHANGED <<Source, FreeBuffer, poolBuffer>>
    /\ UNCHANGED <<path, node, restored, FileHandle, openFiles, FHand, SourceSize, copied>>

LoadFile ==
    /\ readPc = "load" /\ readPc' = "done"
    /\ \E s \in {"BUFFER_TOO_SMALL", "SUCCESS", "ALREADY_STARTED", "NOT_FOUND"} : LoadDone(s)
    /\ UNCHANGED <<path, node, restored, FileHandle, openFiles, FHand, Source, FreeBuffer,
                   poolBuffer, SourceSize, atOnce, copied>>

Done ==
    /\ readPc = "done" /\ readPc' = "return"
    /\ IF readStatus \notin {"SUCCESS", "ALREADY_STARTED"} /\ FHand = "allocated"
       THEN FHand' = "freed" /\ poolBuffer' = (poolBuffer /\ ~FreeBuffer)
       ELSE UNCHANGED <<FHand, poolBuffer>>
    /\ UNCHANGED <<readStatus, path, node, restored, FileHandle, openFiles, Source, FreeBuffer,
                   SourceSize, atOnce, copied>>

ReadSizeUnlessBehind(Offset, n) == IF Offset >= SourceSize THEN 0 ELSE n

\* if (EndPos > SourceSize) { ... if (Offset >= SourceSize) *ReadSize = 0; }
ReadSize(Offset, n) ==
    LET EndPos == (Offset + n) % (MaxUINTN + 1)
    IN  IF EndPos <= SourceSize THEN n
        ELSE IF Offset >= SourceSize THEN 0 ELSE SourceSize - Offset

ReadSimpleReadFile ==
    /\ readPc = "return" /\ readStatus = "SUCCESS" /\ Source # "NULL"
    /\ \E Offset, n \in 0 .. MaxOffset : copied' = <<Offset, Offset + ReadSize(Offset, n)>>
    /\ UNCHANGED <<readPc, readStatus, path, node, restored, FileHandle, openFiles, FHand,
                   Source, FreeBuffer, poolBuffer, SourceSize, atOnce>>

CloseSimpleReadFile ==
    /\ readPc = "return" /\ FHand = "allocated" /\ readPc' = "closed"
    /\ openFiles' = openFiles \ {FileHandle}
    /\ poolBuffer' = (poolBuffer /\ ~FreeBuffer) /\ FHand' = "freed"
    /\ UNCHANGED <<readStatus, path, node, restored, FileHandle, Source, FreeBuffer,
                   SourceSize, atOnce, copied>>

ReadNext ==
    \/ AllocateHandle \/ LocateFileSystem \/ OpenNode \/ EndWalk \/ FindLoadFile \/ SizeFile
    \/ LoadFile \/ Done \/ ReadSimpleReadFile \/ CloseSimpleReadFile

ReadSpec == ReadInit /\ [][ReadNext]_readVars

-----------------------------------------------------------------------------
\* sread.c 270-275, 327-357: an open that fails leaves no file open and nothing
\* allocated, wherever it fails, and Close releases what a successful one keeps; before,
\* at most the file in hand is open.
SimpleReadLeaksNothing ==
    /\ openFiles \subseteq {FileHandle} \ {0}
    /\ readPc = "return" /\ readStatus \notin {"SUCCESS", "ALREADY_STARTED"} =>
         openFiles = {} /\ ~poolBuffer /\ FHand # "allocated"
    /\ readPc = "closed" => openFiles = {} /\ ~poolBuffer

\* sread.c 53-55, 301-312: a handle gives access to the file, unless the load file
\* protocol was done in its sizing call, and no read copies from outside the source.
\* An offset near the end of UINTN is the one case in which it would.
HandleReadsFile ==
    /\ readPc = "return" /\ readStatus = "SUCCESS" =>
         Source # "NULL" \/ FileHandle \in openFiles \/ atOnce
    /\ copied[2] <= SourceSize \/ copied[1] >= copied[2] \/ copied[2] > MaxUINTN
=============================================================================
