---------------------------- MODULE MCFindMemory ----------------------------
(* FindMemory on its own, over the maps of MemoryMaps.                      *)
EXTENDS FindMemory

Some == INSTANCE MemoryMaps

MCMaps == Some!SmallMaps
MCLengths == Some!SmallLengths
MCLimits == Some!SmallLimits
=============================================================================
