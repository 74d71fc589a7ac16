-------------------------------- MODULE File --------------------------------
(***************************************************************************)
(* filesystem::async::file (filesystem/async/file.cpp): a file that is     *)
(* opened for appending and written to with overlapped writes, which end   *)
(* at once, on the stack of the caller, or later, on a thread of the pool. *)
(* There is one OVERLAPPED, and no flag says whether Windows has it.       *)
(***************************************************************************)
EXTENDS ThreadPool

VARIABLES
  handle,     \* _M_file and _M_io.  closed: neither; bare: the file, but no
              \* I/O completion object; open: both
  writing,    \* the write Windows has still to complete
  misused     \* has the Windows API been used against its contract?

fileVars == <<handle, writing, misused>>

FileTypeOK ==
  /\ handle \in {"closed", "bare", "open"}
  /\ writing \in {"none", "active", "doomed"}
  /\ misused \in BOOLEAN

FileInit == handle = "closed" /\ writing = "none" /\ misused = FALSE

\* The calls: write(), close() and the owner's callback with an outcome.
WriteCall   == Frame("write", "file", "none", "none")
CloseCall   == Frame("close_file", "file", "none", "none")
Written(r)  == Frame("written", "file", "none", r)

\* open() const: a handle is enough.
IsOpen == handle # "closed"

\* file::open(mode::write) ends with the handle h.  When it fails after
\* CreateFile() has succeeded, it returns false and keeps the handle.
Opens(h) == handle' = h /\ UNCHANGED <<writing, misused>>

\* What was appended to the file when a write ended with r is up to the
\* owner, who knows the file by its name.

\* file::write(): ends at once with an outcome r, or is left to Windows.
WriteAtOnce(t, r) ==
  /\ Running(t, "write")
  /\ handle = "open"
  /\ writing = "none"
  /\ Replace(t, <<Written(r)>>)
  /\ UNCHANGED fileVars

WritePending(t) ==
  /\ Running(t, "write")
  /\ handle = "open"
  /\ writing = "none"
  /\ writing' = "active"
  /\ Return(t)
  /\ UNCHANGED <<handle, misused>>

\* StartThreadpoolIo() without an I/O completion object, or an OVERLAPPED
\* that Windows still uses.
WriteMisused(t) ==
  /\ Running(t, "write")
  /\ handle # "open" \/ writing # "none"
  /\ misused' = TRUE
  /\ UNCHANGED <<stack, handle, writing>>

\* file::close(): cancel(), and release what there is.
FileClose(t) ==
  /\ Running(t, "close_file")
  /\ handle' = "closed"
  /\ writing' = IF writing = "active" THEN "doomed" ELSE writing
  /\ Return(t)
  /\ UNCHANGED misused

\* io_completion_callback(), run by the idle thread t.
WriteEnds(t, r) ==
  /\ writing # "none"
  /\ writing' = "none"
  /\ Start(t, <<Written(r)>>)
  /\ UNCHANGED <<handle, misused>>

=============================================================================
