-------------------------------- MODULE Vfs ---------------------------------
(***************************************************************************)
(* The virtual file system of lib/vfs: the mount table, the descriptor     *)
(* table and the NTFS volume below them.                                   *)
(*                                                                         *)
(* A path is the sequence of its components.  The mount table compares     *)
(* strings; of the characters only one thing matters: which components     *)
(* begin with which others (Begins).  Paths are absolute.  A call of Vfs   *)
(* never waits, so each is one step; it needs the volume's Mutex, which a  *)
(* create_file or write_file in progress holds.                            *)
(***************************************************************************)
EXTENDS Ntfs

CONSTANTS
  Paths,          \* paths callers open
  FsAt,           \* mount point -> file system a caller mounts there
  Begins,         \* pairs <<c, d>>: component d begins with c and is longer
  ReadSizes,      \* lengths of the buffers given to read
  MaxFds          \* bound on descriptors handed out between two starts

ASSUME PathsAssumption == Paths \subseteq Seq(Names) /\ DOMAIN FsAt \subseteq Seq(Names)
ASSUME ReadSizesAssumption == ReadSizes \subseteq Nat /\ MaxFds \in Nat

VARIABLES
  mounts,         \* mount point -> "ntfs" or "other"
  fds,            \* descriptor -> [rec, offset, size]
  next_fd

vfsVars == <<mounts, fds, next_fd>>
vars == <<ntfsVars, vfsVars>>

(***************************************************************************)
(* The mount table.                                                        *)
(***************************************************************************)
\* path_str.starts_with(mount_path)
StartsWith(p, m) ==
  LET n == Len(m)
  IN  \/ n = 0
      \/ /\ n <= Len(p) /\ SubSeq(p, 1, n - 1) = SubSeq(m, 1, n - 1)
         /\ p[n] = m[n] \/ <<m[n], p[n]>> \in Begins

Candidates(p) == {m \in DOMAIN mounts : StartsWith(p, m)}

\* find_mount: the longest candidate. Each begins with every shorter one.
FindMount(p) ==
  CHOOSE m \in Candidates(p) : \A o \in Candidates(p) : StartsWith(m, o)

(***************************************************************************)
(* NtfsDriver::open, which gets the whole path, mount point included.      *)
(***************************************************************************)
NoFile == -1

ChildOf(r, c) ==
  IF /\ r # NoFile /\ StatOk(r) /\ Stat(r).dir
     /\ Hits(Stat(r), c) # {} /\ Accepted(Find(Stat(r), c))
  THEN Find(Stat(r), c) ELSE NoFile

Walk(p) ==
  LET at[i \in 0..Len(p)] == IF i = 0 THEN Root ELSE ChildOf(at[i - 1], p[i])
  IN  at[Len(p)]

RunBytes(runs) ==
  LET upto[i \in 0..Len(runs)] ==
        IF i = 0 THEN 0 ELSE upto[i - 1] + runs[i].len * BytesPerCluster
  IN  upto[Len(runs)]

Size(b) == IF b.runs = <<>> THEN b.payload.len ELSE RunBytes(b.runs)

(***************************************************************************)
(* Operations.                                                             *)
(***************************************************************************)
VfsInit ==
  /\ NtfsInit
  /\ mounts = <<>>
  /\ fds = <<>>
  /\ next_fd = 0

Extended(f, x, y) == [z \in DOMAIN f \cup {x} |-> IF z = x THEN y ELSE f[z]]

Mount(m) ==
  /\ op = Idle /\ m \notin DOMAIN mounts
  /\ mounts' = Extended(mounts, m, FsAt[m])
  /\ UNCHANGED <<ntfsVars, fds, next_fd>>

Openable(p) ==
  /\ Candidates(p) # {} /\ mounts[FindMount(p)] = "ntfs"
  /\ Walk(p) # NoFile /\ StatOk(Walk(p)) /\ ~Stat(Walk(p)).dir

Open(p) ==
  /\ op = Idle /\ Undamaged /\ next_fd < MaxFds
  /\ Openable(p)
  /\ fds' = Extended(fds, next_fd,
              [rec |-> Walk(p), offset |-> 0, size |-> Size(Stat(Walk(p)))])
  /\ next_fd' = next_fd + 1
  /\ UNCHANGED <<ntfsVars, mounts>>

\* NtfsFileImpl::read: the whole file is read, then the part from offset on.
ReadBytes(h, n) ==
  LET left == Size(Stat(h.rec)) - h.offset
  IN  IF left < 0 THEN 0 ELSE IF n < left THEN n ELSE left

ReadWithoutEnd(fd, n) ==
  /\ op = Idle /\ Undamaged
  /\ fd \in DOMAIN fds /\ StatOk(fds[fd].rec)
  /\ fds' = [fds EXCEPT ![fd].offset = @ + n]
  /\ UNCHANGED <<ntfsVars, mounts, next_fd>>
Read(fd, n) ==
  /\ op = Idle /\ Undamaged
  /\ fd \in DOMAIN fds /\ StatOk(fds[fd].rec)
  /\ fds' = [fds EXCEPT ![fd].offset = @ + ReadBytes(fds[fd], n)]
  /\ UNCHANGED <<ntfsVars, mounts, next_fd>>

Close(fd) ==
  /\ op = Idle /\ fd \in DOMAIN fds
  /\ fds' = [f \in DOMAIN fds \ {fd} |-> fds[f]]
  /\ UNCHANGED <<ntfsVars, mounts, next_fd>>

\* What was mounted and opened is gone with the power.
Restart ==
  /\ PowerLoss
  /\ mounts' = <<>> /\ fds' = <<>> /\ next_fd' = 0

Volume == NtfsStep /\ UNCHANGED vfsVars

Next ==
  \/ Volume
  \/ \E m \in DOMAIN FsAt : Mount(m)
  \/ \E p \in Paths : Open(p)
  \/ \E fd \in DOMAIN fds : Close(fd) \/ \E n \in ReadSizes : Read(fd, n)
  \/ Restart

Spec == VfsInit /\ [][Next]_vars

(***************************************************************************)
(* Properties.                                                             *)
(***************************************************************************)
(* The tables have their shapes.                                           *)
VfsTypeOK ==
  /\ NtfsTypeOK
  /\ DOMAIN mounts \subseteq DOMAIN FsAt
  /\ DOMAIN fds \subseteq 0..(next_fd - 1) /\ next_fd <= MaxFds
  /\ \A fd \in DOMAIN fds : fds[fd].rec \in AllRecords

(* A handle keeps the size it saw when it was opened and reads the record  *)
(* anew at every call. The two agree whatever was created, written or      *)
(* refused in between, and the offset never leaves the file.               *)
HandleFitsFile ==
  \A fd \in DOMAIN fds :
    LET h == fds[fd]
    IN  /\ Accepted(h.rec) /\ ~Stat(h.rec).dir
        /\ h.size = Size(Stat(h.rec))
        /\ h.offset <= h.size
=============================================================================
