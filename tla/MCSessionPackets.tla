-------------------------- MODULE MCSessionPackets --------------------------
EXTENDS SessionPackets, TLC

\* After the list of characters: a login, or packets of the game too early;
\* then everything; then what ends or repeats a login.
AnyKind == DOMAIN Opcode \ {"addFriend"}
AnyClient == << {"charEnum"}, {"playerLogin", "jump"}, AnyKind, AnyKind \ {"charCreate", "charEnum", "bootMe"},
               {"playerLogin", "logout"} >>
FriendClient == << {"charEnum"}, {"playerLogin"}, {"addFriend"}, {"logout"} >>
=============================================================================
