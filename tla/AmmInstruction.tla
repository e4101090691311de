---------------------------- MODULE AmmInstruction ----------------------------
(***************************************************************************)
(* The instructions of the exchange's AMM program and their encoding       *)
(* (amm_instruction.rs): a tag byte, then the fields as little-endian      *)
(* integers.  Bytes are digits in base ByteBase, a u64 has Width of them.  *)
(***************************************************************************)
EXTENDS Integers, Sequences

CONSTANTS ByteBase,  \* 256
          Width      \* bytes of a u64: 8

ASSUME EncodingAssumption == ByteBase \in Nat /\ ByteBase > 11 /\ Width \in Nat \ {0}

(* Tag and field widths as pack writes them.                                *)
PackLayout ==
  [initialize2   |-> [tag |-> 1,  widths |-> <<1, Width, Width, Width>>],
   deposit       |-> [tag |-> 3,  widths |-> <<Width, Width, Width>>],
   withdraw      |-> [tag |-> 4,  widths |-> <<Width>>],
   swap_base_in  |-> [tag |-> 9,  widths |-> <<Width, Width>>],
   swap_base_out |-> [tag |-> 11, widths |-> <<Width, Width>>]]

(* Tag and field widths as unpack reads them: a list of its own.            *)
UnpackLayout ==
  [initialize2   |-> [tag |-> 1,  widths |-> <<1, Width, Width, Width>>],
   deposit       |-> [tag |-> 3,  widths |-> <<Width, Width, Width>>],
   withdraw      |-> [tag |-> 4,  widths |-> <<Width>>],
   swap_base_in  |-> [tag |-> 9,  widths |-> <<Width, Width>>],
   swap_base_out |-> [tag |-> 11, widths |-> <<Width, Width>>]]

(* Variants of the enum that pack has no case for.                          *)
Unencoded == {"initialize", "pre_initialize", "reserved"}

(* What is left of n once its k lowest bytes are taken off.                 *)
HighPart(n, width) ==
  LET high[k \in 0..width] == IF k = 0 THEN n ELSE high[k - 1] \div ByteBase
  IN  high

ToLeBytes(n, width) == [k \in 1..width |-> HighPart(n, width)[k - 1] % ByteBase]

(* Mutant: the most significant byte comes first.                            *)
FromBeBytes(bytes) ==
  LET value[k \in 0..Len(bytes)] ==
        IF k = 0 THEN 0 ELSE bytes[k] + ByteBase * value[k - 1]
  IN  value[Len(bytes)]

FromLeBytes(bytes) ==
  LET value[k \in 0..Len(bytes)] ==
        IF k = 0 THEN 0 ELSE bytes[Len(bytes) + 1 - k] + ByteBase * value[k - 1]
  IN  value[Len(bytes)]

(* The buffer after each field.                                             *)
Buffers(args, layout) ==
  LET buf[k \in 0..Len(layout.widths)] ==
        IF k = 0 THEN <<layout.tag>> ELSE buf[k - 1] \o ToLeBytes(args[k], layout.widths[k])
  IN  buf

(* pack leaves the buffer of an instruction without an encoding empty.      *)
Pack(ix) ==
  IF ix.op \in Unencoded THEN <<>>
  ELSE Buffers(ix.args, PackLayout[ix.op])[Len(PackLayout[ix.op].widths)]

(* The position of each field's last byte; the tag is the first.            *)
Ends(widths) ==
  LET end[k \in 0..Len(widths)] == IF k = 0 THEN 1 ELSE end[k - 1] + widths[k]
  IN  end

(* Fields are split off the front one by one; what follows is not looked at. *)
Fields(buf, widths) ==
  [k \in 1..Len(widths) |-> FromLeBytes(SubSeq(buf, Ends(widths)[k - 1] + 1, Ends(widths)[k]))]

(* The instruction in a buffer, or none: an unknown tag or too few bytes.   *)
Unpack(buf) ==
  { [op |-> op, args |-> Fields(buf, UnpackLayout[op].widths)] :
      op \in { o \in DOMAIN UnpackLayout :
                 /\ buf # <<>> /\ Head(buf) = UnpackLayout[o].tag
                 /\ Len(buf) >= Ends(UnpackLayout[o].widths)[Len(UnpackLayout[o].widths)] } }

(* Accounts of an initialize2 instruction by what it may do to them.        *)
Initialize2Accounts ==
  [signer   |-> {"user_wallet"},
   writable |-> {"amm_pool", "amm_open_orders", "amm_lp_mint", "amm_coin_vault", "amm_pc_vault",
                 "amm_target_orders", "create_fee_destination", "user_wallet", "user_token_coin",
                 "user_token_pc", "user_token_lp"},
   readonly |-> {"spl_token", "associated_token", "system_program", "rent", "amm_authority",
                 "amm_coin_mint", "amm_pc_mint", "amm_config", "market_program", "market"}]

Initialize2(nonce, openTime, initPc, initCoin) ==
  [data |-> Pack([op |-> "initialize2", args |-> <<nonce, openTime, initPc, initCoin>>]),
   accounts |-> Initialize2Accounts]
===============================================================================
