---------------------------- MODULE MCBootDisks ----------------------------
(* Model checking of BootDisks: a GRUB4DOS hook, which was left claimed,   *)
(* before a MEMDISK hook with an mBFT before a hook of another vendor.     *)
EXTENDS BootDisks

CONSTANTS g4d, memdisk, other, slot1, slot2, ram

MCPrev   == g4d :> memdisk @@ memdisk :> other @@ other :> Null
MCVendor == g4d :> "grub4dos" @@ memdisk :> "memdisk" @@ other :> "other"
MCDrives == g4d :> {slot1, slot2} @@ memdisk :> {ram} @@ other :> {}
=============================================================================
