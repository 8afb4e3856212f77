------------------------- MODULE MCNotificationQueue -------------------------
(* Small instances of the notification queue for TLC.                      *)
EXTENDS NotificationQueue

CONSTANTS web, web2

\* Two containers whose names have no common prefix.
LikeApart == {<<web, web>>, <<web2, web2>>}

\* One container.
LikeSelf == {<<web, web>>}

\* The key of web2 starts with the key of web.
LikePrefix == LikeApart \cup {<<web, web2>>}
=============================================================================
