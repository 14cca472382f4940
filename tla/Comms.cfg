CONSTANTS
    Parts = {"messages", "gets", "groups", "services"}
    q1 = q1  q2 = q2  q3 = q3  n1 = n1  n2 = n2  b1 = b1
    g1 = g1  g2 = g2  g3 = g3  pa = pa  pb = pb  k1 = k1  k2 = k2  jk = jk
    p1 = p1  p2 = p2  p3 = p3  c1 = c1  c2 = c2
    Calls = {q1, q2, q3}  Notes = {n1, n2}  Beats = {b1}  DynamicTags = 3
    Scenarios <- MailRuns
SPECIFICATION MCSpec
INVARIANTS MessagesSound GetsSound MembersAgree ServicesSound
PROPERTIES AnsweredAsAsked CommsEnd
CHECK_DEADLOCK FALSE
