--------------------------- MODULE CopyBackwards ---------------------------
(***************************************************************************)
(* copyCatalogBackwards of term 1, lab 3 (subtask 1): every regular file   *)
(* of a directory is copied, back to front, into a new directory.          *)
(*                                                                         *)
(* A copy is known by its source: how reverseDirName() and                 *)
(* reverseFileName() build the names, in buffers that are not terminated,  *)
(* is left out.  A byte is 255 or another one.                             *)
(***************************************************************************)
EXTENDS Naturals, Sequences, SequencesExt

CONSTANTS
    MaxEntries,     \* bound: the entries of the directory
    MaxBytes,       \* bound: the bytes of a file
    Other           \* a byte that is not 255

Entries == [regular : BOOLEAN, bytes : BoundedSeq({255, Other}, MaxBytes)]

VARIABLES
    gl_pathv,   \* what glob() finds; never changes
    k,          \* the loop variable i of main()
    position,   \* the byte of entry k that copyFile() reads next, from 1
    copies,     \* the bytes written for each entry
    at,         \* "main", "stat" or "copy"
    status,     \* "running", "success" or "failure"
    failed      \* whether a call of the library has failed

vars == <<gl_pathv, k, position, copies, at, status, failed>>

Init ==
    /\ gl_pathv \in BoundedSeq(Entries, MaxEntries)
    /\ k = 1 /\ position = 0
    /\ copies = [e \in DOMAIN gl_pathv |-> <<>>]
    /\ at = "main" /\ status = "running" /\ failed = FALSE

Fail ==
    /\ status' = "failure" /\ failed' = TRUE
    /\ UNCHANGED <<gl_pathv, k, position, copies, at>>

(* opendir(), mkdir() and glob(), which also fails when it finds nothing.  *)
OpenDirectory ==
    /\ at = "main"
    /\ \/ /\ gl_pathv # <<>>
          /\ at' = "stat"
          /\ UNCHANGED <<gl_pathv, k, position, copies, status, failed>>
       \/ Fail

(* The loop of main(): what is no regular file is passed over.             *)
SkipEntry ==
    /\ at = "stat" /\ k <= Len(gl_pathv)
    /\ ~ gl_pathv[k].regular
    /\ \/ k' = k + 1 /\ UNCHANGED <<gl_pathv, position, copies, at, status, failed>>
       \/ Fail

(* copyFile() up to ftell().                                               *)
OpenFiles ==
    /\ at = "stat" /\ k <= Len(gl_pathv)
    /\ gl_pathv[k].regular
    /\ \/ /\ position' = Len(gl_pathv[k].bytes)
          /\ at' = "copy"
          /\ UNCHANGED <<gl_pathv, k, copies, status, failed>>
       \/ Fail

(* The result of fgetc() goes into a char, in which 255 is EOF.            *)
IsEof(byte) == byte = 255

(* The body of the loop: fseek(), fgetc() and fputc().                     *)
CopyByte ==
    /\ at = "copy" /\ position > 0
    /\ LET byte == gl_pathv[k].bytes[position]
       IN  \/ /\ ~ IsEof(byte)
              /\ copies' = [copies EXCEPT ![k] = Append(@, byte)]
              /\ position' = position - 1
              /\ UNCHANGED <<gl_pathv, k, at, status, failed>>
           \/ /\ IsEof(byte)
              /\ status' = "failure"
              /\ UNCHANGED <<gl_pathv, k, position, copies, at, failed>>
           \/ Fail

CloseFiles ==
    /\ at = "copy" /\ position = 0
    /\ \/ /\ k' = k + 1 /\ at' = "stat"
          /\ UNCHANGED <<gl_pathv, position, copies, status, failed>>
       \/ Fail

CloseDirectory ==
    /\ at = "stat" /\ k > Len(gl_pathv)
    /\ \/ /\ status' = "success"
          /\ UNCHANGED <<gl_pathv, k, position, copies, at, failed>>
       \/ Fail

Next ==
    /\ status = "running"
    /\ OpenDirectory \/ SkipEntry \/ OpenFiles \/ CopyByte \/ CloseFiles \/ CloseDirectory

Spec == Init /\ [][Next]_vars

-----------------------------------------------------------------------------
(* "copy all regular files", "read from the end and write in the           *)
(* beginning": when the program has ended and no call has failed, every    *)
(* regular file has a copy with its bytes in reverse.                      *)
CopiesAllRegularFiles ==
    status # "running" /\ ~ failed =>
        \A e \in DOMAIN gl_pathv :
            gl_pathv[e].regular => copies[e] = Reverse(gl_pathv[e].bytes)
=============================================================================
