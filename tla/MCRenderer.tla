----------------------------- MODULE MCRenderer -----------------------------
(***************************************************************************)
(* Constants of Renderer that a configuration file cannot express: two     *)
(* drawables of one game object that share a shader, a Sprite, which has a *)
(* transform of its own, and an InstancedSprite, which has none.           *)
(***************************************************************************)
EXTENDS Renderer

MCDrawables == {<<1, 0>>, <<1, 1>>}
MCWithTransform == {<<1, 0>>}
MCPathOf == [d \in MCDrawables |-> "ShaderTexture_01"]
=============================================================================
