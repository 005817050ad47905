---------------------------- MODULE ConfigProofs ----------------------------
(***************************************************************************)
(* Theorems about ConfigPersist when requests that change the              *)
(* configuration come one at a time, for any values of its parts and any   *)
(* number of updates and crashes.  With two savers both invariants are     *)
(* false (ConfigTorn.cfg).                                                 *)
(***************************************************************************)
EXTENDS ConfigPersist, FiniteSetTheorems, TLAPS

\* The file is complete, and never the one that is being written.
FileWhole == FileParses /\ file # tmp

\* What the saver has read is what is in memory: nobody else changes it.
ImageRead(q) ==
    /\ q.pc \in {"accounts", "registry"} => q.image["settings"] = mem["settings"]
    /\ q.pc = "registry" => q.image["accounts"] = mem["accounts"]
    /\ q.pc \in {"open", "write", "rename"} => q.image = mem

\* The temporary file is the saver's: empty, then its image.
TmpWritten(q, t, c) ==
    /\ q.pc = "write" => t # NoInode /\ q.fd = t /\ c[t] = Empty
    /\ q.pc = "rename" => t # NoInode /\ c[t] = Whole(q.image)

Progress ==
    \A s \in Savers :
        /\ ImageRead(saver[s]) /\ TmpWritten(saver[s], tmp, content)
        /\ ~up => saver[s].pc = "idle"

\* What was acknowledged is in the file, and in memory unless it is off.
AckedStored ==
    \A p \in Parts :
        /\ acked[p] # Unsure => content[file].image[p] = acked[p]
        /\ up /\ acked[p] \notin {Unsure, Off} => mem[p] = acked[p]

IInv == TypeOK /\ FileWhole /\ Progress /\ AckedStored

\* What a step is to the cell.
CellStep == [Cell!Next]_<<mem, Restored, up>>

-----------------------------------------------------------------------------
LEMMA PartsImages ==
    /\ Initial \in Images
    /\ Default # Off
    /\ Whole(Initial) \in Contents /\ Empty \in Contents /\ Torn \in Contents
    /\ \A image \in Images : Whole(image) \in Contents
BY PersistAssumption DEF Initial, Images, Whole, Empty, Torn, Contents

LEMMA InitInv == Init => IInv /\ Cell!Init
<1> SUFFICES ASSUME Init PROVE IInv /\ Cell!Init
  OBVIOUS
<1>1. 1 \in Inodes /\ NoInode \notin Inodes
  <2>1. Cardinality(Savers) \in Nat
    BY PersistAssumption, FS_CardinalityType
  <2> QED BY <2>1 DEF Inodes, NoInode
<1>2. TypeOK
  BY <1>1, PartsImages, PersistAssumption
     DEF Init, TypeOK, Resting, Labels, Initial, Images
<1>3. content[file] = Whole(Initial)
  BY <1>1 DEF Init
<1>4. FileWhole
  BY <1>3 DEF Init, FileWhole, FileParses, Parses, Whole, NoInode
<1>5. Progress
  BY DEF Init, Progress, ImageRead, TmpWritten, Resting
<1>6. AckedStored
  BY <1>3 DEF Init, AckedStored, Whole
<1>7. Restored = Initial
  BY <1>3, PartsImages DEF Restored, Parses, Whole, Stored, Initial
<1>8. Cell!Init
  BY <1>7, PersistAssumption DEF Cell!Init, Init, Initial
<1> QED BY <1>2, <1>4, <1>5, <1>6, <1>8 DEF IInv

SaverStates == [pc : Labels, image : Images, fd : Inodes \cup {NoInode}]

LEMMA Facts ==
    ASSUME IInv, NEW s \in Savers
    PROVE  /\ saver[s] \in SaverStates
           /\ ImageRead(saver[s]) /\ TmpWritten(saver[s], tmp, content)
           /\ mem \in Images /\ file \in Inodes /\ content \in [Inodes -> Contents]
           /\ tmp \in Inodes \cup {NoInode} /\ NoInode \notin Inodes
BY DEF IInv, TypeOK, Progress, SaverStates, Inodes, NoInode

\* Steps of the only saver, to q, that leave memory, the file and what was
\* acknowledged alone: the cell does not move.
LEMMA SaverMoves ==
    ASSUME IInv, NEW s, Savers = {s}, NEW q \in SaverStates, up,
           saver' = [saver EXCEPT ![s] = q],
           tmp' \in Inodes \cup {NoInode}, content' \in [Inodes -> Contents],
           UNCHANGED <<up, mem, file, acked, updates, crashes>>,
           content'[file] = content[file], file # tmp',
           ImageRead(q), TmpWritten(q, tmp', content')
    PROVE  IInv' /\ CellStep
<1> USE DEF IInv
<1>1. TypeOK'
  BY DEF TypeOK, SaverStates
<1>2. saver'[s] = q
  BY DEF TypeOK
<1>3. FileWhole'
  BY DEF FileWhole, FileParses, Parses
<1>4. Progress'
  <2>1. ImageRead(q)'
    BY DEF ImageRead
  <2> QED BY <1>2, <2>1 DEF Progress, TmpWritten, ImageRead
<1>5. AckedStored'
  BY DEF AckedStored
<1>6. Restored' = Restored
  BY DEF Restored, Parses, Stored
<1> QED BY <1>1, <1>3, <1>4, <1>5, <1>6 DEF CellStep

LEMMA UpdateKeeps ==
    ASSUME IInv, NEW s, Savers = {s}, Update(s)
    PROVE  IInv' /\ CellStep
<1> USE DEF IInv
<1>1. PICK p \in Parts : \E v \in Choices(p) :
          /\ mem' = [mem EXCEPT ![p] = v]
          /\ acked' = [acked EXCEPT ![p] = Unsure]
  BY DEF Update
<1>2. PICK v \in Choices(p) : mem' = [mem EXCEPT ![p] = v]
  BY <1>1
<1>3. v \in Values \cup {Off}
  BY DEF Choices
<1>4. /\ up /\ updates < MaxUpdates /\ updates' = updates + 1
      /\ saver' = [saver EXCEPT ![s].pc = "settings"]
      /\ UNCHANGED <<up, tmp, file, content, crashes>>
  BY DEF Update, At, Goto, disk
<1>5. saver' \in [Savers -> SaverStates] /\ saver'[s].pc = "settings"
  BY <1>4 DEF TypeOK, SaverStates, Labels
<1>6. TypeOK'
  BY <1>1, <1>2, <1>3, <1>4, <1>5, PersistAssumption DEF TypeOK, SaverStates, Images
<1>7. FileWhole'
  BY <1>4 DEF FileWhole, FileParses, Parses
<1>8. Progress'
  BY <1>4, <1>5 DEF Progress, ImageRead, TmpWritten
<1>9. AckedStored'
  BY <1>1, <1>2, <1>4 DEF AckedStored, TypeOK, Images
<1>10. Restored' = Restored
  BY <1>4 DEF Restored, Parses, Stored
<1>11. Cell!Change(p, v)
  BY <1>2, <1>4, <1>10 DEF Cell!Change
<1>12. CellStep
  BY <1>3, <1>11 DEF CellStep, Cell!Next
<1> QED BY <1>6, <1>7, <1>8, <1>9, <1>12

LEMMA ReadPartKeeps ==
    ASSUME IInv, NEW s, Savers = {s}, NEW p \in Parts, ReadPart(s, p)
    PROVE  IInv' /\ CellStep
<1> DEFINE q == [saver[s] EXCEPT !.pc = Following[p], !.image = [@ EXCEPT ![p] = mem[p]]]
<1>1. /\ saver[s] \in SaverStates /\ ImageRead(saver[s])
      /\ mem \in Images /\ file \in Inodes /\ content \in [Inodes -> Contents]
      /\ tmp \in Inodes \cup {NoInode} /\ file # tmp
  BY Facts DEF IInv, FileWhole
<1>2. /\ up /\ saver[s].pc = p /\ saver' = [saver EXCEPT ![s] = q]
      /\ UNCHANGED <<up, mem, tmp, file, content, acked, updates, crashes>>
  BY DEF ReadPart, At, disk
<1>3. saver[s].image \in Images /\ [saver[s].image EXCEPT ![p] = mem[p]] \in Images
  BY <1>1 DEF SaverStates, Images
<1>4. Following[p] \in {"accounts", "registry", "open"}
  BY DEF Following, Parts
<1>5. /\ q \in SaverStates /\ q.pc = Following[p]
      /\ q.image = [saver[s].image EXCEPT ![p] = mem[p]]
  BY <1>1, <1>3, <1>4 DEF SaverStates, Labels
<1>6. ImageRead(q)
  <2>1. CASE p = "settings"
    BY <1>1, <1>3, <1>5, <2>1 DEF ImageRead, Following, Parts, Images
  <2>2. CASE p = "accounts"
    BY <1>1, <1>2, <1>3, <1>5, <2>2 DEF ImageRead, Following, Parts, Images
  <2>3. CASE p = "registry"
    <3>1. q.pc = "open"
      BY <1>5, <2>3 DEF Following
    <3>2. \A o \in Parts : q.image[o] = mem[o]
      BY <1>1, <1>2, <1>3, <1>5, <2>3 DEF ImageRead, Parts, Images
    <3>3. q.image = mem
      <4> HIDE DEF q
      <4>1. q.image = [o \in Parts |-> q.image[o]] /\ mem = [o \in Parts |-> mem[o]]
        BY <1>1, <1>3, <1>5 DEF Images
      <4>2. [o \in Parts |-> q.image[o]] = [o \in Parts |-> mem[o]]
        BY <3>2
      <4> QED BY <4>1, <4>2
    <3> QED BY <3>1, <3>3 DEF ImageRead
  <2> QED BY <2>1, <2>2, <2>3 DEF Parts
<1>7. TmpWritten(q, tmp', content')
  BY <1>4, <1>5 DEF TmpWritten
<1> HIDE DEF q
<1> QED BY <1>1, <1>2, <1>5, <1>6, <1>7, SaverMoves

LEMMA OpenTmpKeeps ==
    ASSUME IInv, NEW s, Savers = {s}, OpenTmp(s)
    PROVE  IInv' /\ CellStep
<1>1. /\ saver[s] \in SaverStates /\ ImageRead(saver[s])
      /\ file \in Inodes /\ content \in [Inodes -> Contents]
      /\ tmp \in Inodes \cup {NoInode} /\ NoInode \notin Inodes /\ file # tmp
  BY Facts DEF IInv, FileWhole
<1>2. PICK i \in (IF tmp = NoInode THEN Unlinked ELSE {tmp}) :
          /\ tmp' = i
          /\ content' = [content EXCEPT ![i] = Empty]
          /\ saver' = [saver EXCEPT ![s].pc = "write", ![s].fd = i]
  BY DEF OpenTmp
<1>3. i \in Inodes /\ i # file /\ i # NoInode
  BY <1>1, <1>2 DEF Unlinked
<1> DEFINE q == [saver[s] EXCEPT !.pc = "write", !.fd = i]
<1>4. /\ q \in SaverStates /\ q.pc = "write" /\ q.fd = i /\ q.image = saver[s].image
  BY <1>1, <1>3 DEF SaverStates, Labels
<1>5. /\ up /\ saver[s].pc = "open" /\ saver' = [saver EXCEPT ![s] = q]
      /\ UNCHANGED <<up, mem, file, acked, updates, crashes>>
  BY <1>2 DEF OpenTmp, At
<1>6. /\ content' \in [Inodes -> Contents] /\ content'[file] = content[file]
      /\ content'[tmp'] = Empty
  BY <1>1, <1>2, <1>3, PartsImages
<1>7. ImageRead(q) /\ TmpWritten(q, tmp', content')
  BY <1>1, <1>2, <1>3, <1>4, <1>5, <1>6 DEF ImageRead, TmpWritten
<1> HIDE DEF q
<1> QED BY <1>1, <1>2, <1>3, <1>4, <1>5, <1>6, <1>7, SaverMoves

LEMMA WriteTmpKeeps ==
    ASSUME IInv, NEW s, Savers = {s}, WriteTmp(s)
    PROVE  IInv' /\ CellStep
<1> DEFINE q == [saver[s] EXCEPT !.pc = "rename", !.fd = NoInode]
<1>1. /\ saver[s] \in SaverStates /\ ImageRead(saver[s]) /\ TmpWritten(saver[s], tmp, content)
      /\ file \in Inodes /\ content \in [Inodes -> Contents]
      /\ tmp \in Inodes \cup {NoInode} /\ NoInode \notin Inodes /\ file # tmp
  BY Facts DEF IInv, FileWhole
<1>2. /\ up /\ saver[s].pc = "write" /\ saver' = [saver EXCEPT ![s] = q]
      /\ UNCHANGED <<up, mem, tmp, file, acked, updates, crashes>>
  BY DEF WriteTmp, At
<1>3. saver[s].fd = tmp /\ tmp # NoInode /\ content[tmp] = Empty
  BY <1>1, <1>2 DEF TmpWritten
<1>4. content' = [content EXCEPT ![tmp] = Whole(saver[s].image)]
  BY <1>3, Zenon DEF WriteTmp
<1>5. Whole(saver[s].image) \in Contents
  BY <1>1, PartsImages DEF SaverStates
<1>6. /\ content' \in [Inodes -> Contents] /\ content'[file] = content[file]
      /\ content'[tmp] = Whole(saver[s].image)
  BY <1>1, <1>3, <1>4, <1>5
<1>7. /\ q \in SaverStates /\ q.pc = "rename" /\ q.image = saver[s].image
  BY <1>1 DEF SaverStates, Labels
<1>8. ImageRead(q) /\ TmpWritten(q, tmp', content')
  BY <1>1, <1>2, <1>3, <1>6, <1>7 DEF ImageRead, TmpWritten
<1> HIDE DEF q
<1> QED BY <1>1, <1>2, <1>6, <1>7, <1>8, SaverMoves

LEMMA SaveFailsKeeps ==
    ASSUME IInv, NEW s, Savers = {s}, SaveFails(s)
    PROVE  IInv' /\ CellStep
<1>1. /\ file \in Inodes /\ content \in [Inodes -> Contents]
      /\ tmp \in Inodes \cup {NoInode} /\ file # tmp
  BY Facts DEF IInv, FileWhole
<1>2. Resting \in SaverStates /\ ImageRead(Resting) /\ TmpWritten(Resting, tmp', content')
  BY PartsImages DEF Resting, SaverStates, Labels, ImageRead, TmpWritten
<1>3. /\ up /\ saver' = [saver EXCEPT ![s] = Resting]
      /\ UNCHANGED <<up, mem, tmp, file, content, acked, updates, crashes>>
  BY DEF SaveFails, At, disk
<1> QED BY <1>1, <1>2, <1>3, SaverMoves

\* The image that is renamed into place is the configuration in memory.
LEMMA RenameKeeps ==
    ASSUME IInv, NEW s, Savers = {s}, Rename(s)
    PROVE  IInv' /\ CellStep
<1> USE DEF IInv
<1>1. /\ saver[s] \in SaverStates /\ ImageRead(saver[s]) /\ TmpWritten(saver[s], tmp, content)
      /\ mem \in Images
  BY Facts
<1>2. /\ up /\ saver[s].pc = "rename" /\ tmp # NoInode
      /\ file' = tmp /\ tmp' = NoInode
      /\ saver' = [saver EXCEPT ![s] = Resting]
      /\ UNCHANGED <<up, mem, content, updates, crashes>>
  BY DEF Rename, At
<1>3. saver[s].image = mem /\ content[tmp] = Whole(mem)
  BY <1>1, <1>2 DEF ImageRead, TmpWritten
<1>4. acked' = mem
  BY <1>3 DEF Rename
<1>5. content'[file'] = Whole(mem) /\ tmp \in Inodes /\ NoInode \notin Inodes
  BY <1>2, <1>3 DEF TypeOK, Inodes, NoInode
<1>6. Resting \in SaverStates
  BY PartsImages DEF Resting, SaverStates, Labels
<1>7. TypeOK'
  <2>1. acked' \in [Parts -> Values \cup {Off, Unsure}]
    BY <1>1, <1>4 DEF Images
  <2> QED BY <1>2, <1>5, <1>6, <2>1 DEF TypeOK, SaverStates
<1>8. FileWhole'
  BY <1>2, <1>5 DEF FileWhole, FileParses, Parses, Whole
<1>9. Progress'
  <2>1. saver'[s] = Resting
    BY <1>2 DEF TypeOK
  <2> QED BY <1>2, <2>1 DEF Progress, ImageRead, TmpWritten, Resting
<1>10. AckedStored'
  BY <1>2, <1>4, <1>5 DEF AckedStored, Whole
<1>11. Restored' = [p \in Parts |-> Stored(p, mem[p])]
  BY <1>5 DEF Restored, Parses, Whole
<1>12. Cell!Commit
  BY <1>2, <1>11 DEF Cell!Commit
<1>13. CellStep
  BY <1>12 DEF CellStep, Cell!Next
<1> QED BY <1>7, <1>8, <1>9, <1>10, <1>13

LEMMA CrashKeeps ==
    ASSUME IInv, Crash PROVE IInv' /\ CellStep
<1> USE DEF IInv
<1>1. /\ up /\ up' = FALSE /\ crashes < MaxCrashes /\ crashes' = crashes + 1
      /\ saver' = [s \in Savers |-> Resting]
      /\ UNCHANGED <<mem, tmp, file, content, acked, updates>>
  BY DEF Crash, disk
<1>2. Resting \in SaverStates
  BY PartsImages DEF Resting, SaverStates, Labels
<1>3. TypeOK'
  <2>1. saver' \in [Savers -> SaverStates]
    BY <1>1, <1>2
  <2>2. crashes' \in 0..MaxCrashes
    BY <1>1, PersistAssumption DEF TypeOK
  <2> QED BY <1>1, <2>1, <2>2 DEF TypeOK, SaverStates
<1>4. FileWhole'
  BY <1>1 DEF FileWhole, FileParses, Parses
<1>5. Progress'
  BY <1>1 DEF Progress, ImageRead, TmpWritten, Resting
<1>6. AckedStored'
  BY <1>1 DEF AckedStored
<1>7. Restored' = Restored
  BY <1>1 DEF Restored, Parses, Stored
<1>8. CellStep
  BY <1>1, <1>7 DEF CellStep, Cell!Next, Cell!Stop
<1> QED BY <1>3, <1>4, <1>5, <1>6, <1>8

\* What was acknowledged is read back, except a setting that is off.
LEMMA RestartKeeps ==
    ASSUME IInv, Restart PROVE IInv' /\ CellStep
<1> USE DEF IInv
<1>1. /\ ~up /\ up' = TRUE /\ mem' = Restored
      /\ UNCHANGED <<saver, tmp, file, content, acked, updates, crashes>>
  BY DEF Restart, disk
<1>2. content[file] \in Contents /\ Parses(file)
  BY DEF TypeOK, FileWhole, FileParses
<1>3. \A p \in Parts : Restored[p] = Stored(p, content[file].image[p])
  BY <1>2 DEF Restored
<1>4. Restored \in Images
  BY <1>2, PersistAssumption DEF Restored, Stored, Contents, Images
<1>5. TypeOK'
  BY <1>1, <1>4 DEF TypeOK
<1>6. FileWhole'
  BY <1>1 DEF FileWhole, FileParses, Parses
<1>7. Progress'
  BY <1>1 DEF Progress, ImageRead, TmpWritten
<1>8. AckedStored'
  BY <1>1, <1>3 DEF AckedStored, Stored
<1>9. Restored' = Restored
  BY <1>1 DEF Restored, Parses, Stored
<1>10. CellStep
  BY <1>1, <1>9 DEF CellStep, Cell!Next, Cell!Start
<1> QED BY <1>5, <1>6, <1>7, <1>8, <1>10

LEMMA NextKeeps ==
    ASSUME NEW s, Savers = {s}
    PROVE  IInv /\ [Next]_vars => IInv' /\ CellStep
<1> SUFFICES ASSUME IInv, [Next]_vars PROVE IInv' /\ CellStep
  OBVIOUS
<1>1. CASE UNCHANGED vars
  <2>1. Restored' = Restored
    BY <1>1 DEF vars, disk, Restored, Parses, Stored
  <2> QED BY <1>1, <2>1 DEF vars, disk, IInv, TypeOK, FileWhole, FileParses, Parses,
             Progress, ImageRead, TmpWritten, AckedStored, CellStep
<1>2. CASE Next
  BY <1>2, UpdateKeeps, ReadPartKeeps, OpenTmpKeeps, WriteTmpKeeps, SaveFailsKeeps,
     RenameKeeps, CrashKeeps, RestartKeeps DEF Next
<1> QED BY <1>1, <1>2

-----------------------------------------------------------------------------
\* gateway_config.json is complete JSON at every moment, so at every start,
\* when requests that save come one at a time.
THEOREM ParsesAlways ==
    ASSUME NEW s, Savers = {s}
    PROVE  Spec => []FileParses
<1>1. IInv => FileParses
  BY DEF IInv, FileWhole
<1>2. Init => IInv
  BY InitInv
<1>3. IInv /\ [Next]_vars => IInv'
  BY NextKeeps
<1> QED BY <1>1, <1>2, <1>3, PTL DEF Spec

\* A setting whose saving succeeded is in force again after every start,
\* whatever crashes and failing saves came after it.
THEOREM AckedStays ==
    ASSUME NEW s, Savers = {s}
    PROVE  Spec => []AckedInForce
<1>1. IInv => AckedInForce
  BY DEF IInv, AckedStored, AckedInForce
<1>2. Init => IInv
  BY InitInv
<1>3. IInv /\ [Next]_vars => IInv'
  BY NextKeeps
<1> QED BY <1>1, <1>2, <1>3, PTL DEF Spec

\* Saving one at a time implements the atomic cell.
THEOREM SavesAreAtomic ==
    ASSUME NEW s, Savers = {s}
    PROVE  Spec => ImplementsCell
<1>1. Init => IInv /\ Cell!Init
  BY InitInv
<1>2. IInv /\ [Next]_vars => IInv' /\ CellStep
  BY NextKeeps
<1>3. CellStep => [Cell!Next]_(Cell!cellVars)
  BY DEF CellStep, Cell!cellVars
<1> QED BY <1>1, <1>2, <1>3, PTL DEF Spec, ImplementsCell, Cell!Spec
=============================================================================
