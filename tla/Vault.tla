------------------------------- MODULE Vault --------------------------------
(***************************************************************************)
(* What the four commands promise together, whatever they leave behind     *)
(* when they fail, overwrite each other's files or are killed: data is     *)
(* stored only under a key that its owner holds and that seals nothing     *)
(* else, the registry vouches only for sealed data, and for live data only *)
(* when it is stored, and only what was sealed is ever recovered.  Nothing *)
(* stored or vouched for is lost.  When two uploads have written to one    *)
(* path together, or one while the path was read, the registry may have    *)
(* the root of one, or of none, with the commitment of the other, but      *)
(* still a commitment to sealed data.                                      *)
(***************************************************************************)
CONSTANTS
  Envelopes,     \* sealed data, each with its key
  Foreign,       \* envelopes sealed before any command ran
  StorageModes,  \* how data may be uploaded: "dry_run" or "live"
  EntryOf(_, _)  \* the registry's entry for an envelope uploaded in a mode

VARIABLES
  sealed,    \* envelopes that exist, each under a key its owner holds
  stored,    \* those the storage network holds
  vouched,   \* the registry's entries
  recovered, \* those whose message a decryption has returned
  mixed      \* whether an artifact has been mixed of two, in a file or in a read

vaultVars == <<sealed, stored, vouched, recovered, mixed>>

VaultInit ==
  /\ sealed = Foreign /\ stored = {} /\ vouched = {} /\ recovered = {}
  /\ mixed = FALSE

Seal(e) ==
  /\ \A s \in sealed : s.key # e.key
  /\ sealed' = sealed \cup {e}
  /\ UNCHANGED <<stored, vouched, recovered, mixed>>

Store(e) ==
  /\ e \in sealed \ stored
  /\ stored' = stored \cup {e}
  /\ UNCHANGED <<sealed, vouched, recovered, mixed>>

Vouch(e, mode) ==
  /\ e \in sealed /\ (mode = "live" => e \in stored)
  /\ vouched' = vouched \cup {EntryOf(e, mode)}
  /\ UNCHANGED <<sealed, stored, recovered, mixed>>

Mix ==
  /\ mixed' = TRUE
  /\ UNCHANGED <<sealed, stored, vouched, recovered>>

\* An entry with the commitment of sealed data and whatever root.
VouchMixed(e, mode) ==
  /\ mixed /\ e \in sealed
  /\ \E entry \in vouched' :
       /\ entry.state_commitment = EntryOf(e, mode).state_commitment
       /\ vouched' = vouched \cup {entry}
  /\ UNCHANGED <<sealed, stored, recovered, mixed>>

Recover(e) ==
  /\ e \in sealed \ recovered
  /\ recovered' = recovered \cup {e}
  /\ UNCHANGED <<sealed, stored, vouched, mixed>>

VaultNext ==
  \/ \E e \in Envelopes : Seal(e)
  \/ \E e \in sealed :
       \/ Store(e) \/ Recover(e)
       \/ \E mode \in StorageModes : Vouch(e, mode) \/ VouchMixed(e, mode)
  \/ Mix

VaultSpec == VaultInit /\ [][VaultNext]_vaultVars
=============================================================================
